---- MODULE Spec2Model ----
(***************************************************************************)
(* A model of the go7z archive reader: Reader.init, Reader.Next and        *)
(* Reader.Read over the folders built by Reader.extract, each folder       *)
(* holding a lazily built codec graph and a sub-stream sequencer.          *)
(*                                                                         *)
(* The header of the archive (the IsEmptyStream flag of every file and the *)
(* number of sub-streams of every folder) is fixed in the initial state.   *)
(* What the random-access source returns when it is read (a start header   *)
(* with a wrong CRC, an unregistered coder, a codec graph that cannot be   *)
(* resolved, a flipped body byte) is an input of the call that reads it.   *)
(***************************************************************************)
EXTENDS Integers, Sequences, FiniteSets, TLC

\* Bounds of the model.
MaxFiles == 2
MaxFolders == 3
MaxStreams == 2
MaxSize == 2
MaxBuf == 2

VARIABLES
  archive,      \* the parsed header: files (IsEmptyStream flags), subs (sub-streams per folder)
  pc,           \* "new", "ready", "initfailed" or "crashed" (a Go panic)
  err,          \* Reader.err
  folderIndex,  \* Reader.folderIndex (0-based, as in the source)
  fileIndex,    \* Reader.fileIndex (0-based, as in the source)
  emptyStream,  \* Reader.emptyStream
  folders,      \* Reader.folders, a sequence of folderReader records
  last,         \* the last call and what it returned
  yielded,      \* the FileInfo entries returned by Next so far (indices into FilesInfo)
  got,          \* the bytes Read delivered since the last FileInfo was returned
  ignoreChecksumError,  \* the flag init was called with
  headerBufs,   \* pooled buffers held by the folder init used to decode an encoded header
  twin,         \* a second Reader, opened on the same header stored unencoded, that
                \* receives the same calls with the same inputs
  loopPc,       \* position of the extraction loop; "free" when calls come in any order
  call,         \* a function of the parser or of a coder applied to an input: op, in, out
  decompressors,  \* the registry: a function from the registered coder IDs to factories
  km,           \* filters.km, the process-wide key manager: cache and hasher
  procs         \* the goroutines that use the registry or the key manager

vars == <<archive, pc, err, folderIndex, fileIndex, emptyStream, folders, last, yielded, got,
          ignoreChecksumError, headerBufs, twin, loopPc, call, decompressors, km, procs>>

\* The process-wide state and the goroutines other than the caller of the Reader.
Shared == <<decompressors, km, procs>>

SeqsUpTo(S, n) == UNION {[1..k -> S] : k \in 0..n}

Min(a, b) == IF a < b THEN a ELSE b

RECURSIVE SumSeq(_)
SumSeq(q) == IF q = <<>> THEN 0 ELSE q[1] + SumSeq(Tail(q))

\* The sub-stream counts of at most MaxFolders folders, MaxStreams sub-streams in all.
Layouts == {q \in SeqsUpTo(0..MaxStreams, MaxFolders) : SumSeq(q) <= MaxStreams}

\* files[i] = TRUE: FilesInfo[i-1].IsEmptyStream.  subs[f]: sub-streams of folder f-1.
\* missing: the first folder (1-based) one of whose coder IDs has no registered
\* decompressor, 0 when every coder ID of every folder is registered.
Archives ==
  {a \in [files : SeqsUpTo(BOOLEAN, MaxFiles), subs : Layouts, missing : 0..MaxFolders] :
     a.missing <= Len(a.subs)}

\* The declared size of sub-stream s of folder f (both 1-based here).
SubSize(f, s) == 1 + ((f + s) % MaxSize)

RECURSIVE SubStart(_, _)
\* Offset of sub-stream s in the output of folder f.
SubStart(f, s) == IF s <= 1 THEN 0 ELSE SubStart(f, s - 1) + SubSize(f, s - 1)

\* n bytes of the output of folder f from offset from; a byte is named by its place.
SinkBytes(f, from, n) == [i \in 1..n |-> <<f, from + i>>]

\* The bytes of sub-stream s of folder f.
SubStreamBytes(f, s) == SinkBytes(f, SubStart(f, s), SubSize(f, s))

NonEmptyCount(files) == Cardinality({i \in 1..Len(files) : ~files[i]})

----------------------------------------------------------------------------
\* The sub-stream sequencer (solidblock.Solidblock).

\* Next(): advance to the next sub-stream, skipping what is left of the current one.
sbNext(fr) ==
  IF fr.target >= Len(fr.sizes)
  THEN [fr |-> fr, err |-> "EOF"]
  ELSE [fr |-> [fr EXCEPT !.pos = @ + fr.left,
                          !.target = @ + 1,
                          !.left = fr.sizes[fr.target + 1],
                          !.crc = "clean"],
        err |-> "nil"]

\* Read(p): up to min(len(p), left) bytes; the running CRC is compared when the
\* sub-stream is exhausted.  flip: a byte delivered by this read is not the byte
\* the declared CRC was computed over.
sbRead(fr, len, flip) ==
  IF fr.left = 0
  THEN [fr |-> fr, n |-> 0, from |-> fr.pos, err |-> "EOF"]
  ELSE LET n == Min(len, fr.left)
           crc == IF flip THEN "dirty" ELSE fr.crc
           left == fr.left - n
       IN [fr |-> [fr EXCEPT !.left = left, !.pos = @ + n, !.crc = crc],
           n |-> n, from |-> fr.pos,
           err |-> IF left = 0 /\ crc = "dirty" THEN "ErrChecksumMismatch" ELSE "nil"]

----------------------------------------------------------------------------
\* folderReader

GraphOutcomes == {"ok", "outputsErr", "manySinks", "nilSink"}

\* A folderReader as Reader.extract leaves it.
newFolderReader(f, n) ==
  [sizes |-> [s \in 1..n |-> SubSize(f, s)],
   graph |-> "unknown", sb |-> FALSE,
   target |-> 0, left |-> 0, pos |-> 0, crc |-> "clean",
   bufs |-> 0]

\* folderReader.Next.  g: what resolving the codec graph yields the first time.
folderReaderNext(fr, g) ==
  IF ~fr.sb
  THEN LET graph == IF fr.graph = "unknown" THEN g ELSE fr.graph
           fr1 == [fr EXCEPT !.graph = graph, !.bufs = 1]
       IN IF graph = "outputsErr" THEN [fr |-> fr1, err |-> "ErrBinder"]
          ELSE IF graph = "manySinks" THEN [fr |-> fr1, err |-> "ErrNotSupported"]
          ELSE IF graph = "nilSink" THEN [fr |-> fr1, err |-> "ErrNotSupported"]
          ELSE sbNext([fr1 EXCEPT !.sb = TRUE])
  ELSE sbNext(fr)

\* folderReader.Close
Close(fr) == [fr EXCEPT !.bufs = 0]

----------------------------------------------------------------------------
\* Reader

\* The Reader's fields as one record.
Reader ==
  [err |-> err, folderIndex |-> folderIndex, fileIndex |-> fileIndex,
   emptyStream |-> emptyStream, folders |-> folders]

Ret(sz, fi, e) == [sz |-> sz, fileInfo |-> fi, err |-> e, panic |-> FALSE]

Panic(sz) == [sz |-> sz, fileInfo |-> 0, err |-> "panic", panic |-> TRUE]

\* Mutant: the emptyStream vector is never applied to the files.
IsEmptyStream_unset(fi) == FALSE

\* FileInfo.IsEmptyStream of FilesInfo[fi-1], as ReadFilesInfo set it.
IsEmptyStream(fi) == archive.files[fi]

\* Reader.nextFileInfo: the returned fileInfo is the 1-based place in FilesInfo, 0 for nil.
nextFileInfo(sz) ==
  IF sz.fileIndex < Len(archive.files)
  THEN [sz |-> [sz EXCEPT !.fileIndex = @ + 1], fileInfo |-> sz.fileIndex + 1]
  ELSE [sz |-> sz, fileInfo |-> 0]

\* Mutant: no early return for an empty-stream file.
emptyStreamReturn_never(sz) == FALSE

\* Reader.next returns the file at once, consuming no sub-stream.
emptyStreamReturn(sz) == sz.emptyStream

\* What Reader.next makes of the result of the first folderReader.Next.
folderExhausted(e) == e = "EOF"

\* Reader.next
next(sz, g1, g2) ==
  LET nfi == nextFileInfo(sz) IN
  IF nfi.fileInfo = 0 THEN Ret(nfi.sz, 0, "EOF")
  ELSE
    LET sz1 == [nfi.sz EXCEPT !.emptyStream = IsEmptyStream(nfi.fileInfo)] IN
    IF emptyStreamReturn(sz1) THEN Ret(sz1, nfi.fileInfo, "nil")
    ELSE IF sz1.folderIndex >= Len(sz1.folders) THEN Panic(sz1)
    ELSE
      LET r1 == folderReaderNext(sz1.folders[sz1.folderIndex + 1], g1)
          sz2 == [sz1 EXCEPT !.folders[sz1.folderIndex + 1] = r1.fr]
      IN
      IF folderExhausted(r1.err)
      THEN
        LET sz3 == [sz2 EXCEPT !.folders[sz2.folderIndex + 1] = Close(@),
                               !.folderIndex = @ + 1]
        IN
        IF sz3.folderIndex >= Len(sz3.folders) THEN Ret(sz3, 0, "EOF")
        ELSE
          LET r2 == folderReaderNext(sz3.folders[sz3.folderIndex + 1], g2) IN
          Ret([sz3 EXCEPT !.folders[sz3.folderIndex + 1] = r2.fr], nfi.fileInfo, "nil")
      ELSE Ret(sz2, nfi.fileInfo, "nil")

\* Reader.Next
ReaderNext(sz, g1, g2) ==
  IF sz.err # "nil" THEN Ret(sz, 0, sz.err)
  ELSE LET r == next(sz, g1, g2) IN
       IF r.panic THEN r ELSE [r EXCEPT !.sz.err = r.err]

\* Mutant: a reader initialised with the ignore-checksum flag does not store the error.
readErr_flagDowngrades(old, e) ==
  IF e # "nil" /\ e # "EOF" /\ ~ignoreChecksumError THEN e ELSE old

\* Mutant: Read returns the error without storing it.
readErr_notCached(old, e) == old

\* The error Reader.Read leaves in Reader.err after the sequencer returned e.
readErr(old, e) == IF e # "nil" /\ e # "EOF" THEN e ELSE old

\* Mutant: Read goes to the current folder for an empty-stream file too.
readEmpty_never(sz) == FALSE

\* Reader.Read answers end-of-stream without touching a folder.
readEmpty(sz) == sz.emptyStream

\* Reader.Read
ReaderRead(sz, len, flip) ==
  IF sz.err # "nil" THEN [sz |-> sz, n |-> 0, from |-> 0, err |-> sz.err, panic |-> FALSE]
  ELSE IF readEmpty(sz) THEN [sz |-> sz, n |-> 0, from |-> 0, err |-> "EOF", panic |-> FALSE]
  ELSE IF sz.folderIndex >= Len(sz.folders)
         THEN [sz |-> sz, n |-> 0, from |-> 0, err |-> "panic", panic |-> TRUE]
  ELSE IF ~sz.folders[sz.folderIndex + 1].sb
         THEN [sz |-> sz, n |-> 0, from |-> 0, err |-> "panic", panic |-> TRUE]
  ELSE LET r == sbRead(sz.folders[sz.folderIndex + 1], len, flip) IN
       [sz |-> [sz EXCEPT !.folders[sz.folderIndex + 1] = r.fr,
                          !.err = readErr(@, r.err)],
        n |-> r.n, from |-> r.from, err |-> r.err, panic |-> FALSE]

\* Mutant: the decompressor is looked up when the folder is entered, not here.
extract_lazyLookup(subs, missing) ==
  [folders |-> [f \in 1..Len(subs) |-> newFolderReader(f, subs[f])], err |-> "nil"]

\* Reader.extract over MainStreamsInfo: the folderReaders, or the error of the first
\* coder ID that decompressor() does not find.
extract(subs, missing) ==
  IF missing # 0
  THEN [folders |-> [f \in 1..(missing - 1) |-> newFolderReader(f, subs[f])],
        err |-> "ErrDecompressorNotFound"]
  ELSE [folders |-> [f \in 1..Len(subs) |-> newFolderReader(f, subs[f])],
        err |-> "nil"]

\* Mutant: the start-header CRC is compared before the next-header size is checked.
ReadSignatureHeader_crcFirst(in) ==
  IF in.sig = "badMagic" THEN "ErrInvalidSignatureHeader"
  ELSE IF ~in.startCRC THEN "ErrChecksumMismatch"
  ELSE IF in.sig = "badSize" THEN "ErrInvalidSignatureHeader"
  ELSE "nil"

\* headers.ReadSignatureHeader: the error returned for the 32 bytes at the start of the
\* source.  in.sig = "badMagic": the six magic bytes differ; "badSize": NextHeaderSize
\* is negative or above MaxHeaderSize; in.startCRC: the start-header CRC matches.
ReadSignatureHeader(in) ==
  IF in.sig = "badMagic" THEN "ErrInvalidSignatureHeader"
  ELSE IF in.sig = "badSize" THEN "ErrInvalidSignatureHeader"
  ELSE IF ~in.startCRC THEN "ErrChecksumMismatch"
  ELSE "nil"

\* Mutant: a next header of size 0 is read as a header without content.
ReadPackedStreamsForHeaders_emptyOk(top) == [kind |-> "none", err |-> "nil"]

\* headers.ReadPackedStreamsForHeaders over a next header (or a decoded header stream)
\* that is "empty" (ReadByte meets the end of the input at once), a "header", an
\* "encoded" header, or "bad" (a tag that is not accepted).  kind: which of the two
\* results is not nil.
ReadPackedStreamsForHeaders(top) ==
  IF top = "empty" THEN [kind |-> "none", err |-> "EOF"]
  ELSE IF top = "header" THEN [kind |-> "header", err |-> "nil"]
  ELSE IF top = "encoded" THEN [kind |-> "encoded", err |-> "nil"]
  ELSE [kind |-> "none", err |-> "ErrUnexpectedPropertyID"]

\* The flag the entry points pass to init.
ignoreFlag(entry) == entry = "Fuzz"

InitFail(e) == [folders |-> <<>>, err |-> e, headerBufs |-> 0]

\* init failed after the folder of the encoded header was entered.
InitFailHeld(e, fr) == [folders |-> <<>>, err |-> e, headerBufs |-> fr.bufs]

\* Reader.init, the branch for an encoded header.  enc: the StreamsInfo of the encoded
\* header (nfolders, the sub-streams subs of its first folder, whether a coder of it
\* is not registered, what resolving its graph yields) and what its decoded stream
\* holds (inner).  bufs: the pooled buffers the folder holds when the branch is left.
decodeHeader(enc) ==
  LET x == extract([f \in 1..enc.nfolders |-> enc.subs], IF enc.missing THEN 1 ELSE 0) IN
  IF x.err # "nil" THEN [kind |-> "none", err |-> x.err, bufs |-> 0]
  ELSE IF Len(x.folders) # 1 THEN [kind |-> "none", err |-> "ErrNotSupported", bufs |-> 0]
  ELSE
    LET r1 == folderReaderNext(x.folders[1], enc.g) IN
    IF r1.err # "nil" THEN [kind |-> "none", err |-> r1.err, bufs |-> r1.fr.bufs]
    ELSE
      LET h == ReadPackedStreamsForHeaders(enc.inner) IN
      IF h.err # "nil" THEN [kind |-> "none", err |-> h.err, bufs |-> r1.fr.bufs]
      ELSE
        LET r2 == folderReaderNext(r1.fr, enc.g) IN
        IF r2.err # "EOF" THEN [kind |-> "none", err |-> "ErrNotSupported", bufs |-> r2.fr.bufs]
        ELSE [kind |-> IF h.kind = "header" THEN "header" ELSE "none", err |-> "nil",
              bufs |-> r2.fr.bufs]

\* Mutant: the folders are built from the StreamsInfo of the encoded header.
headerStreams_ofEncoded(in) ==
  IF in.top = "encoded" THEN [f \in 1..in.enc.nfolders |-> in.enc.subs] ELSE archive.subs

\* sz.header.MainStreamsInfo: the sub-stream counts of the folders of the header,
\* read from the source or decoded from it.
headerStreams(in) == archive.subs

\* Reader.init.  in: what the source holds (sig, startCRC, nextCRC, top, enc).
init(in, ignore) ==
  LET e1 == ReadSignatureHeader(in)
      p == ReadPackedStreamsForHeaders(in.top)
  IN
  IF e1 # "nil" /\ ~(ignore /\ e1 = "ErrChecksumMismatch") THEN InitFail(e1)
  ELSE IF in.sig = "tooLong" THEN InitFail("ErrUnexpectedEOF")
  ELSE IF p.err # "nil" THEN InitFail(p.err)
  ELSE IF ~in.nextCRC /\ ~ignore THEN InitFail("ErrChecksumMismatch")
  ELSE
    LET d == IF p.kind = "encoded" THEN decodeHeader(in.enc)
             ELSE [kind |-> p.kind, err |-> "nil", bufs |-> 0]
    IN
    IF d.err # "nil" THEN [InitFail(d.err) EXCEPT !.headerBufs = d.bufs]
    ELSE IF d.kind # "header" THEN [InitFail("ErrNotSupported") EXCEPT !.headerBufs = d.bufs]
    ELSE LET x == extract(headerStreams(in), archive.missing) IN
         [folders |-> IF x.err # "nil" THEN <<>> ELSE x.folders, err |-> x.err,
          headerBufs |-> d.bufs]

----------------------------------------------------------------------------
\* Actions

\* The StreamsInfo of an encoded header as 7-Zip writes it, and none.
GoodEnc == [nfolders |-> 1, subs |-> 1, missing |-> FALSE, g |-> "ok", inner |-> "header"]

NoEnc == [nfolders |-> 0, subs |-> 0, missing |-> FALSE, g |-> "ok", inner |-> "-"]

NoIn == [entry |-> "-", sig |-> "ok", startCRC |-> TRUE, nextCRC |-> TRUE, top |-> "-",
         enc |-> NoEnc]

NoCall == [op |-> "none", err |-> "nil", fileInfo |-> 0, n |-> 0, bytes |-> <<>>, in |-> NoIn]

\* The fields of a new Reader.
NewReader ==
  [err |-> "nil", folderIndex |-> 0, fileIndex |-> 0, emptyStream |-> FALSE, folders |-> <<>>]

NoTwin ==
  [top |-> "-", pc |-> "new", sz |-> NewReader, err |-> "nil", fileInfo |-> 0, n |-> 0,
   from |-> 0]

\* The source with the same header stored unencoded.
Unencoded(in) == IF in.top = "encoded" THEN [in EXCEPT !.top = "header", !.enc = NoEnc] ELSE in

InitCommon ==
  /\ archive \in Archives
  /\ pc = "new"
  /\ err = "nil"
  /\ folderIndex = 0
  /\ fileIndex = 0
  /\ emptyStream = FALSE
  /\ folders = <<>>
  /\ last = NoCall
  /\ yielded = <<>>
  /\ got = <<>>
  /\ ignoreChecksumError = FALSE
  /\ headerBufs = 0
  /\ twin = NoTwin

\* No function has been applied.
NoParse == [op |-> "none", in |-> <<>>, out |-> <<>>]

\* Nothing but the Reader is looked at.
NoShared == decompressors = <<>> /\ km = <<>> /\ procs = <<>>

Init == InitCommon /\ loopPc = "free" /\ call = NoParse /\ NoShared

\* The StreamsInfo of an encoded header: the one 7-Zip writes, and those that differ
\* from it in one respect.
EncInputs ==
  {e \in [nfolders : 0..2, subs : 0..2, missing : BOOLEAN, g : GraphOutcomes,
          inner : {"header", "encoded", "empty", "bad"}] :
     Cardinality({k \in {"nfolders", "subs", "missing", "g", "inner"} : e[k] # GoodEnc[k]}) <= 1}

\* The next header of the source: only an archive without files and folders has a
\* next header of size 0.
TopInputs ==
  {"header", "encoded", "bad"} \cup
    (IF archive.files = <<>> /\ archive.subs = <<>> THEN {"empty"} ELSE {})

\* The sources of the archive and the entry point that opens it.  The part of the
\* source that no call reads (the next header behind a signature header that is
\* rejected, the encoded StreamsInfo of a plain header) is not an input, and an
\* encoded StreamsInfo other than the one 7-Zip writes comes with matching CRCs.
InitInputs ==
  {in \in [entry : {"OpenReader", "NewReader", "Fuzz"},
           sig : {"ok", "badMagic", "badSize", "tooLong"},
           startCRC : BOOLEAN, nextCRC : BOOLEAN,
           top : TopInputs, enc : EncInputs \cup {NoEnc}] :
     /\ in.sig # "ok" => (in.top = "header" /\ in.nextCRC)
     /\ (~in.startCRC /\ ~ignoreFlag(in.entry)) => (in.top = "header" /\ in.nextCRC)
     /\ (in.top = "encoded") = (in.enc # NoEnc)
     /\ (in.top = "encoded" /\ in.enc # GoodEnc) => (in.startCRC /\ in.nextCRC)}

\* The sources of a valid archive: the signature is valid, both header CRCs match,
\* and the header is plain or encoded the way 7-Zip encodes it.
ValidInputs ==
  {in \in InitInputs :
     /\ in.sig = "ok" /\ in.startCRC /\ in.nextCRC
     /\ in.top \in {"header", "encoded"}
     /\ in.top = "encoded" => in.enc = GoodEnc}

\* What resolving the codec graph of folder f can yield: an input of the call only
\* while the graph of that folder has not been resolved before.
GraphInputs(f) ==
  IF f \in 1..Len(folders) /\ folders[f].graph = "unknown" THEN GraphOutcomes ELSE {"ok"}

SetReader(sz) ==
  /\ err' = sz.err
  /\ folderIndex' = sz.folderIndex
  /\ fileIndex' = sz.fileIndex
  /\ emptyStream' = sz.emptyStream
  /\ folders' = sz.folders

\* NewReader / OpenReader / Fuzz: construct a Reader and call init.
DoOpen(in) ==
  /\ pc = "new"
  /\ LET r == init(in, ignoreFlag(in.entry)) IN
       /\ pc' = IF r.err = "nil" THEN "ready" ELSE "initfailed"
       /\ folders' = r.folders
       /\ headerBufs' = r.headerBufs
       /\ ignoreChecksumError' = ignoreFlag(in.entry)
       /\ LET u == init(Unencoded(in), ignoreFlag(in.entry)) IN
            twin' = [top |-> in.top, pc |-> IF u.err = "nil" THEN "ready" ELSE "initfailed",
                     sz |-> [NewReader EXCEPT !.folders = u.folders],
                     err |-> u.err, fileInfo |-> 0, n |-> 0, from |-> 0]
       /\ last' = [op |-> "init", err |-> r.err, fileInfo |-> 0, n |-> 0, bytes |-> <<>>,
                   in |-> in]
  /\ UNCHANGED <<archive, err, folderIndex, fileIndex, emptyStream, yielded, got, call, Shared>>

\* A call of Reader.Next; g1 and g2 are what resolving the graphs of the current and
\* of the following folder yields.
DoNext(g1, g2) ==
  /\ pc = "ready"
  /\ LET r == ReaderNext(Reader, g1, g2) IN
       /\ SetReader(r.sz)
       /\ pc' = IF r.panic THEN "crashed" ELSE pc
       /\ last' = [op |-> "Next", err |-> r.err, fileInfo |-> r.fileInfo, n |-> 0,
                   bytes |-> <<>>, in |-> NoIn]
       /\ yielded' = IF r.fileInfo # 0 THEN Append(yielded, r.fileInfo) ELSE yielded
       /\ got' = IF r.fileInfo # 0 THEN <<>> ELSE got
  /\ twin' = IF twin.pc # "ready" THEN twin
             ELSE LET u == ReaderNext(twin.sz, g1, g2) IN
                  [twin EXCEPT !.pc = IF u.panic THEN "crashed" ELSE @, !.sz = u.sz,
                               !.err = u.err, !.fileInfo = u.fileInfo, !.n = 0, !.from = 0]
  /\ UNCHANGED <<archive, ignoreChecksumError, headerBufs, call, Shared>>

\* A call of Reader.Read with a buffer of len bytes.
DoRead(len, flip) ==
  /\ pc = "ready"
  /\ LET r == ReaderRead(Reader, len, flip)
         bytes == IF r.n = 0 THEN <<>> ELSE SinkBytes(folderIndex + 1, r.from, r.n)
     IN
     /\ SetReader(r.sz)
     /\ pc' = IF r.panic THEN "crashed" ELSE pc
     /\ last' = [op |-> "Read", err |-> r.err, fileInfo |-> 0, n |-> r.n,
                 bytes |-> bytes, in |-> NoIn]
     /\ got' = got \o bytes
  /\ twin' = IF twin.pc # "ready" THEN twin
             ELSE LET u == ReaderRead(twin.sz, len, flip) IN
                  [twin EXCEPT !.pc = IF u.panic THEN "crashed" ELSE @, !.sz = u.sz,
                               !.err = u.err, !.fileInfo = 0, !.n = u.n,
                               !.from = IF u.n = 0 THEN 0 ELSE u.from]
  /\ UNCHANGED <<archive, yielded, ignoreChecksumError, headerBufs, call, Shared>>

\* A caller that opens any archive and calls Next and Read in any order, with any
\* buffer size.
Open ==
  /\ loopPc = "free"
  /\ pc = "new"
  /\ \E in \in InitInputs : DoOpen(in)
  /\ UNCHANGED loopPc

CallNext ==
  /\ loopPc = "free"
  /\ pc = "ready"
  /\ \E g1 \in GraphInputs(folderIndex + 1), g2 \in GraphInputs(folderIndex + 2) : DoNext(g1, g2)
  /\ UNCHANGED loopPc

CallRead ==
  /\ loopPc = "free"
  /\ pc = "ready"
  /\ \E len \in 1..MaxBuf, flip \in BOOLEAN : DoRead(len, flip)
  /\ UNCHANGED loopPc

Next == Open \/ CallNext \/ CallRead

Spec == Init /\ [][Next]_vars

----------------------------------------------------------------------------
\* The extraction loop of the README and of the tests over a valid archive: Next,
\* then Read until end-of-stream, until Next returns end-of-stream.

TotalStreams == SumSeq(archive.subs)

\* A valid archive: every coder is registered, and there are as many files with a
\* body as there are sub-streams.
ValidArchive == archive.missing = 0 /\ NonEmptyCount(archive.files) = TotalStreams

InitLoop == InitCommon /\ ValidArchive /\ loopPc = "open" /\ call = NoParse /\ NoShared

LoopOpen ==
  /\ loopPc = "open"
  /\ pc = "new"
  /\ \E in \in ValidInputs : DoOpen(in)
  /\ loopPc' = IF pc' = "ready" THEN "next" ELSE "openfailed"

LoopNext ==
  /\ loopPc = "next"
  /\ DoNext("ok", "ok")
  /\ loopPc' = IF pc' = "crashed" THEN "fail"
               ELSE IF last'.err = "EOF" THEN "done"
               ELSE IF last'.err # "nil" THEN "fail"
               ELSE "read"

LoopRead ==
  /\ loopPc = "read"
  /\ \E len \in 1..MaxBuf : DoRead(len, FALSE)
  /\ loopPc' = IF pc' = "crashed" THEN "fail"
               ELSE IF last'.err = "EOF" THEN "next"
               ELSE IF last'.err # "nil" THEN "fail"
               ELSE "read"

NextLoop == LoopOpen \/ LoopNext \/ LoopRead

\* The loop is sequential code: it takes its next step whenever it has one.
SpecLoop == InitLoop /\ [][NextLoop]_vars /\ WF_vars(NextLoop)

----------------------------------------------------------------------------
\* The header parser, one structure at a time.  The input of a function is what it
\* reads from the header stream; the structures nested in it are taken to parse.

MaxTags == 3

HeaderTags == {"End", "MainStreamsInfo", "FilesInfo", "ArchiveProperties", "Dummy"}

RECURSIVE ReadHeaderLoop(_, _)
\* The loop of headers.ReadHeader over the tags that remain; header: which of
\* MainStreamsInfo and FilesInfo are set so far.
ReadHeaderLoop(tags, header) ==
  IF tags = <<>> THEN [header |-> "nil", err |-> "EOF"]
  ELSE IF Head(tags) = "ArchiveProperties"
         THEN [header |-> "nil", err |-> "ErrArchivePropertiesNotImplemented"]
  ELSE IF Head(tags) = "MainStreamsInfo"
         THEN ReadHeaderLoop(Tail(tags), [header EXCEPT !.MainStreamsInfo = TRUE])
  ELSE IF Head(tags) = "FilesInfo"
         THEN ReadHeaderLoop(Tail(tags), [header EXCEPT !.FilesInfo = TRUE])
  ELSE IF Head(tags) = "End"
         THEN IF ~header.MainStreamsInfo
              THEN [header |-> "nil", err |-> "ErrUnexpectedPropertyID"]
              ELSE [header |-> header, err |-> "nil"]
  ELSE [header |-> "nil", err |-> "ErrUnexpectedPropertyID"]

\* headers.ReadHeader
ReadHeader(tags) == ReadHeaderLoop(tags, [MainStreamsInfo |-> FALSE, FilesInfo |-> FALSE])

\* The reader variables of a specification that only applies functions, each to one
\* input, once.
InitIdle ==
  /\ archive = [files |-> <<>>, subs |-> <<>>, missing |-> 0]
  /\ pc = "new" /\ err = "nil" /\ folderIndex = 0 /\ fileIndex = 0
  /\ emptyStream = FALSE /\ folders = <<>> /\ last = NoCall /\ yielded = <<>> /\ got = <<>>
  /\ ignoreChecksumError = FALSE /\ headerBufs = 0 /\ twin = NoTwin
  /\ loopPc = "parse"

IdleVars ==
  <<archive, pc, err, folderIndex, fileIndex, emptyStream, folders, last, yielded, got,
    ignoreChecksumError, headerBufs, twin, loopPc>>

InitParse == InitIdle /\ call = NoParse /\ NoShared

\* ReadHeader applied to the tags of a header.
ParseHeader ==
  /\ call.op = "none"
  /\ \E tags \in SeqsUpTo(HeaderTags, MaxTags) :
       call' = [op |-> "ReadHeader", in |-> tags, out |-> ReadHeader(tags)]
  /\ UNCHANGED <<IdleVars, Shared>>


----------------------------------------------------------------------------
\* The decompressor registry (sync.Map) used by several goroutines.

MaxProcs == 2
MaxMethods == 2
MaxOps == 2

Procs == 1..MaxProcs

\* Coder IDs: 0 (copy) is registered by the package's init, the others are not.
Methods == 0..MaxMethods

\* Mutant: the factory is stored whether or not the ID is registered.
LoadOrStore_overwrites(m, method, dcomp) ==
  [m |-> [x \in DOMAIN m \cup {method} |-> IF x = method THEN dcomp ELSE m[x]], loaded |-> FALSE]

\* sync.Map.LoadOrStore, one atomic operation: the map after it, and whether the key
\* was present.
LoadOrStore(m, method, dcomp) ==
  IF method \in DOMAIN m
  THEN [m |-> m, loaded |-> TRUE]
  ELSE [m |-> [x \in DOMAIN m \cup {method} |-> IF x = method THEN dcomp ELSE m[x]],
        loaded |-> FALSE]

\* decompressor(method): sync.Map.Load; <<>>, the nil factory, when the ID is not
\* registered.  A factory is written as the pair <<goroutine, call>> of the call that
\* passed it, the copy factory of the package's init as <<0, 0>>.
decompressor(m, method) == IF method \in DOMAIN m THEN m[method] ELSE <<>>

\* A goroutine that has made no call.
NewProc ==
  [pc |-> "run", ops |-> 0, op |-> "none", method |-> 0, dcomp |-> <<>>, result |-> "nil",
   found |-> <<>>]

InitRegistry ==
  /\ InitIdle /\ call = NoParse /\ km = <<>>
  /\ decompressors = [x \in {0} |-> <<0, 0>>]
  /\ procs = [p \in Procs |-> NewProc]

\* RegisterDecompressor(method, dcomp) called by goroutine p; a panic ends the goroutine.
RegisterDecompressor(p) ==
  /\ procs[p].pc = "run" /\ procs[p].ops < MaxOps
  /\ \E method \in Methods :
       LET dcomp == <<p, procs[p].ops>>
           r == LoadOrStore(decompressors, method, dcomp)
       IN /\ decompressors' = r.m
          /\ procs' = [procs EXCEPT ![p] =
                         [pc |-> IF r.loaded THEN "panicked" ELSE "run", ops |-> @.ops + 1,
                          op |-> "register", method |-> method, dcomp |-> dcomp,
                          result |-> IF r.loaded THEN "panic" ELSE "stored", found |-> <<>>]]
  /\ UNCHANGED <<IdleVars, call, km>>

\* decompressor(method) called by goroutine p.
Lookup(p) ==
  /\ procs[p].pc = "run" /\ procs[p].ops < MaxOps
  /\ \E method \in Methods :
       procs' = [procs EXCEPT ![p] =
                   [pc |-> "run", ops |-> @.ops + 1, op |-> "lookup", method |-> method,
                    dcomp |-> <<>>, result |-> "looked up",
                    found |-> decompressor(decompressors, method)]]
  /\ UNCHANGED <<IdleVars, call, km, decompressors>>

NextRegistry == \E p \in Procs : RegisterDecompressor(p) \/ Lookup(p)

SpecRegistry == InitRegistry /\ [][NextRegistry]_vars

----------------------------------------------------------------------------
\* SubStreamsInfo: headers.ReadSubStreamsInfo and the part of Reader.extract that
\* hands sizes and CRCs to the folders.

MaxParsedFolders == 2
MaxUnpackStreams == 2
MaxUnpackSize == 2

\* a - b in uint64 arithmetic, for a and b below 2^63.  The uint64 values from 2^63
\* on are written as negative numbers: -d is the uint64 value 2^64 - d, which is what
\* the subtraction yields when it wraps around.
SubUint64(a, b) == a - b

\* The CRCs the archive declares: the folder CRC of folder f (UnpackCRC, 0 when it is
\* not defined) and the digest of sub-stream s of folder f in the CRC section, all
\* different and none 0.
FolderCRC(f) == 100 + f
SubStreamCRC(f, s) == 10 * f + s

\* UnpackInfo as ReadUnpackInfo left it: for every folder its unpack size and whether
\* its CRC is defined.
UnpackInfos ==
  SeqsUpTo([unpackSize : 0..MaxUnpackSize, crcDefined : BOOLEAN], MaxParsedFolders)

UnpackCRC(unpackInfo, f) == IF unpackInfo[f].crcDefined THEN FolderCRC(f) ELSE 0

\* What a SubStreamsInfo holds for the folders of unpackInfo: the tags that are
\* present, the counts after NumUnpackStream, the sizes after Size (for every folder
\* those of all its sub-streams but the last) and, after CRC, the digests the
\* counting rule asks for, all defined.  present: the StreamsInfo has a SubStreamsInfo.
SubStreamsInputs(unpackInfo) ==
  LET F == 1..Len(unpackInfo) IN
  {s \in [present : BOOLEAN, numTag : BOOLEAN, nums : [F -> 0..MaxUnpackStreams],
          sizeTag : BOOLEAN, sizes : [F -> 0..(MaxUnpackSize + 1)], crcTag : BOOLEAN] :
     /\ ~s.present => (~s.numTag /\ ~s.sizeTag /\ ~s.crcTag)
     /\ ~s.numTag => \A f \in F : s.nums[f] = 1
     /\ \A f \in F : (~s.sizeTag \/ s.nums[f] < 2) => s.sizes[f] = 0}

RECURSIVE Concat(_)
Concat(qs) == IF qs = <<>> THEN <<>> ELSE Head(qs) \o Concat(Tail(qs))

\* headers.ReadSubStreamsInfo.  With MaxUnpackStreams = 2 a folder has at most one
\* size in the Size section.
ReadSubStreamsInfo(unpackInfo, s) ==
  LET F == 1..Len(unpackInfo)
      NumUnpackStreamsInFolders == [f \in F |-> IF s.numTag THEN s.nums[f] ELSE 1]
      read(f) == IF s.sizeTag
                 THEN [j \in 1..(NumUnpackStreamsInFolders[f] - 1) |-> s.sizes[f]]
                 ELSE <<>>
      sizesOf(f) == IF NumUnpackStreamsInFolders[f] = 0 THEN <<>>
                    ELSE read(f) \o
                         <<SubUint64(unpackInfo[f].unpackSize, SumSeq(read(f)))>>
      counted(f) == NumUnpackStreamsInFolders[f] > 1 \/ UnpackCRC(unpackInfo, f) = 0
      digestsOf(f) == IF counted(f)
                      THEN [j \in 1..NumUnpackStreamsInFolders[f] |-> SubStreamCRC(f, j)]
                      ELSE <<>>
  IN [NumUnpackStreamsInFolders |-> NumUnpackStreamsInFolders,
      UnpackSizes |-> Concat([f \in F |-> sizesOf(f)]),
      Digests |-> IF s.crcTag THEN Concat([f \in F |-> digestsOf(f)]) ELSE <<>>,
      err |-> "nil"]

RECURSIVE extractStreamsFrom(_, _, _, _)
\* The loop of Reader.extract from folder i on, for a StreamsInfo with SubStreamsInfo:
\* sizes and crcs are what is left of UnpackSizes and Digests.
extractStreamsFrom(i, nums, sizes, crcs) ==
  IF i > Len(nums) THEN [folders |-> <<>>, err |-> "nil"]
  ELSE LET off == nums[i] IN
       IF off > Len(sizes) \/ off > Len(crcs)
       THEN [folders |-> <<>>, err |-> "ErrInvalidUnpackSizeOrDigest"]
       ELSE LET fr == [sizes |-> SubSeq(sizes, 1, off), crcs |-> SubSeq(crcs, 1, off)]
                rest == extractStreamsFrom(i + 1, nums, SubSeq(sizes, off + 1, Len(sizes)),
                                           SubSeq(crcs, off + 1, Len(crcs)))
            IN IF rest.err # "nil" THEN rest
               ELSE [folders |-> <<fr>> \o rest.folders, err |-> "nil"]

\* Reader.extract, the sizes and CRCs of the folderReaders.  present: SubStreamsInfo
\* is not nil.
extractStreams(unpackInfo, present, ssi) ==
  IF ~present
  THEN [folders |-> [f \in 1..Len(unpackInfo) |->
                       [sizes |-> <<unpackInfo[f].unpackSize>>,
                        crcs |-> <<UnpackCRC(unpackInfo, f)>>]],
        err |-> "nil"]
  ELSE extractStreamsFrom(1, ssi.NumUnpackStreamsInFolders, ssi.UnpackSizes, ssi.Digests)

\* ReadSubStreamsInfo, then Reader.extract, applied to the StreamsInfo of a header.
ParseSubStreams ==
  /\ call.op = "none"
  /\ \E unpackInfo \in UnpackInfos : \E s \in SubStreamsInputs(unpackInfo) :
       LET ssi == ReadSubStreamsInfo(unpackInfo, s) IN
       call' = [op |-> "extract",
                in |-> [unpackInfo |-> unpackInfo, s |-> s],
                out |-> [ssi |-> ssi, x |-> extractStreams(unpackInfo, s.present, ssi)]]
  /\ UNCHANGED <<IdleVars, Shared>>

----------------------------------------------------------------------------
\* The AES key manager (filters.km): key derivation and its process-wide cache.

MaxPower == 0
MaxSalt == 1
MaxPassword == 1

\* numCyclesPower 0x3f: the key is not stretched.
NoStretch == 63

\* aes.BlockSize and sha256.Size, in bytes.
BlockSize == 16
DigestSize == 32

Powers == 0..MaxPower \cup {NoStretch}

\* Salts and passwords (UTF-16 code units below 128), over alphabets that do not meet.
Salts == SeqsUpTo({1}, MaxSalt)
Passwords == SeqsUpTo({97}, MaxPassword)

KeyArgs == [power : Powers, salt : Salts, password : Passwords]

RECURSIVE utf16le(_)
\* binary.Write(b, binary.LittleEndian, p) for every code unit p of the password.
utf16le(password) ==
  IF password = <<>> THEN <<>>
  ELSE <<Head(password) % 256, Head(password) \div 256>> \o utf16le(Tail(password))

\* The cache key: the password, the salt and the power as one byte.
cacheKey(a) == a.password \o a.salt \o <<a.power % 256>>

\* keyManager.stretch: salt, then password, then zeros, in a key of aes.BlockSize bytes.
stretch(salt, password) ==
  [i \in 1..BlockSize |->
     IF i <= Len(salt) THEN salt[i]
     ELSE IF i - Len(salt) <= Len(password) THEN password[i - Len(salt)]
     ELSE 0]

RECURSIVE littleEndian(_, _)
\* The k low bytes of n, the lowest first.
littleEndian(n, k) == IF k = 0 THEN <<>> ELSE <<n % 256>> \o littleEndian(n \div 256, k - 1)

\* The 8 bytes of temp in round round: a little-endian counter.
temp(round) == littleEndian(round, 8)

\* hasher.Sum(nil): DigestSize bytes that depend on every byte written since Reset.
Sum(written) == [i \in 1..DigestSize |-> <<"sha256", written>>]

RECURSIVE Rounds(_, _, _, _)
\* What rounds round..2^power-1 of keyManager.sha256Stretch write to the hasher.
Rounds(round, power, salt, password) ==
  IF round >= 2 ^ power THEN <<>>
  ELSE salt \o password \o temp(round) \o Rounds(round + 1, power, salt, password)

\* keyManager.sha256Stretch run on a hasher that holds written and that no one else uses.
sha256Stretch(written, power, salt, password) ==
  Sum(written \o Rounds(0, power, salt, password))

\* keyManager.Key run alone on an empty cache.
Key(a) ==
  IF a.power = NoStretch THEN stretch(a.salt, utf16le(a.password))
  ELSE sha256Stretch(<<>>, a.power, a.salt, utf16le(a.password))

\* NewAESDecrypter: aes.NewCipher takes keys of 16, 24 and 32 bytes and picks AES-128,
\* AES-192 or AES-256 by the length.
NewAESDecrypter(a) ==
  LET key == Key(a) IN
  [key |-> key,
   err |-> IF Len(key) \in {16, 24, 32} THEN "nil" ELSE "KeySizeError",
   cipher |-> IF Len(key) = 16 THEN "AES-128" ELSE IF Len(key) = 24 THEN "AES-192"
              ELSE IF Len(key) = 32 THEN "AES-256" ELSE "nil"]

\* NewAESDecrypter applied to a power, a salt and a password.
DeriveKey ==
  /\ call.op = "none"
  /\ \E a \in KeyArgs : call' = [op |-> "NewAESDecrypter", in |-> a, out |-> NewAESDecrypter(a)]
  /\ UNCHANGED <<IdleVars, Shared>>

\* A goroutine that has not called Key.
NewKeyProc == [pc |-> "idle", args |-> <<>>, round |-> 0, key |-> <<>>]

InitKeys ==
  /\ InitIdle /\ call = NoParse /\ decompressors = <<>>
  /\ km = [cache |-> <<>>, hasher |-> <<>>, writing |-> {}, race |-> FALSE]
  /\ procs = [p \in Procs |-> NewKeyProc]

KeyUnchanged == UNCHANGED <<IdleVars, call, decompressors>>

\* Goroutine p calls km.Key: line 41, the read of the cache map.
KeyLoad(p) ==
  /\ procs[p].pc = "idle"
  /\ \E a \in KeyArgs :
       LET hit == cacheKey(a) \in DOMAIN km.cache IN
       /\ procs' = [procs EXCEPT ![p] =
                      [pc |-> IF hit THEN "done"
                              ELSE IF a.power = NoStretch THEN "store" ELSE "salt",
                       args |-> a, round |-> 0,
                       key |-> IF hit THEN km.cache[cacheKey(a)]
                               ELSE IF a.power = NoStretch
                                      THEN stretch(a.salt, utf16le(a.password))
                               ELSE <<>>]]
       /\ km' = [km EXCEPT !.race = @ \/ km.writing # {}]
  /\ KeyUnchanged

\* Lines 81-83: one Write to the shared hasher.
KeyWrite(p) ==
  /\ procs[p].pc \in {"salt", "password", "temp"}
  /\ LET a == procs[p].args
         bytes == IF procs[p].pc = "salt" THEN a.salt
                  ELSE IF procs[p].pc = "password" THEN utf16le(a.password)
                  ELSE temp(procs[p].round)
         more == procs[p].round + 1 < 2 ^ a.power
     IN /\ km' = [km EXCEPT !.hasher = @ \o bytes]
        /\ procs' = [procs EXCEPT ![p].pc = IF @ = "salt" THEN "password"
                                            ELSE IF @ = "password" THEN "temp"
                                            ELSE IF more THEN "salt" ELSE "sum",
                                  ![p].round = IF procs[p].pc = "temp" THEN @ + 1 ELSE @]
  /\ KeyUnchanged

\* Line 94: Sum over what the shared hasher holds.
KeySum(p) ==
  /\ procs[p].pc = "sum"
  /\ procs' = [procs EXCEPT ![p].pc = "reset", ![p].key = Sum(km.hasher)]
  /\ UNCHANGED km
  /\ KeyUnchanged

\* Line 93: the deferred Reset of the shared hasher.
KeyReset(p) ==
  /\ procs[p].pc = "reset"
  /\ km' = [km EXCEPT !.hasher = <<>>]
  /\ procs' = [procs EXCEPT ![p].pc = "store"]
  /\ KeyUnchanged

\* Line 57: the write of the cache map begins.
KeyStoreBegin(p) ==
  /\ procs[p].pc = "store"
  /\ km' = [km EXCEPT !.race = @ \/ km.writing # {}, !.writing = @ \cup {p}]
  /\ procs' = [procs EXCEPT ![p].pc = "storing"]
  /\ KeyUnchanged

\* Line 57: the write of the cache map ends; line 58.
KeyStoreEnd(p) ==
  /\ procs[p].pc = "storing"
  /\ LET k == cacheKey(procs[p].args) IN
       km' = [km EXCEPT !.writing = @ \ {p},
                        !.cache = [x \in DOMAIN km.cache \cup {k} |->
                                     IF x = k THEN procs[p].key ELSE km.cache[x]]]
  /\ procs' = [procs EXCEPT ![p].pc = "done"]
  /\ KeyUnchanged

NextKeys ==
  \E p \in Procs :
    \/ KeyLoad(p) \/ KeyWrite(p) \/ KeySum(p) \/ KeyReset(p)
    \/ KeyStoreBegin(p) \/ KeyStoreEnd(p)

SpecKeys == InitKeys /\ [][NextKeys]_vars

----------------------------------------------------------------------------
\* The readers of the header's primitive values (ReadByte, ReadNumber, the vector
\* readers).  A reader r is the sequence of the bytes not yet read; a uint64 is the
\* sequence of its 8 bytes, least significant first.

NumberBytes == 8
MaxNumberByte4 == 127
MaxVector == 2

RECURSIVE Pow2(_)
Pow2(n) == IF n = 0 THEN 1 ELSE 2 * Pow2(n - 1)

\* Bit n (0 the lowest) of the byte b.
Bit(b, n) == (b \div Pow2(n)) % 2

RECURSIVE OrByte(_, _, _)
\* a | b on the bits n..7 of two bytes.
OrByte(a, b, n) ==
  IF n > 7 THEN 0
  ELSE (IF Bit(a, n) = 1 \/ Bit(b, n) = 1 THEN Pow2(n) ELSE 0) + OrByte(a, b, n + 1)

Uint64Zero == [j \in 1..NumberBytes |-> 0]

\* value | uint64(val) << (8 * i)
OrShifted(value, val, i) == [value EXCEPT ![i + 1] = OrByte(@, val, 0)]

RECURSIVE AddShifted(_, _, _)
\* value + x << (8 * i) modulo 2^64, for x below 2^8.
AddShifted(value, x, i) ==
  IF i >= NumberBytes \/ x = 0 THEN value
  ELSE LET s == value[i + 1] + x IN
       AddShifted([value EXCEPT ![i + 1] = s % 256], s \div 256, i + 1)

\* r.Read of one byte: the end of the input is io.EOF.
ReadByte(r) ==
  IF r = <<>> THEN [val |-> 0, err |-> "EOF", r |-> r]
  ELSE [val |-> Head(r), err |-> "nil", r |-> Tail(r)]

\* Mutant: the bits of the first byte are added unshifted.
highPart_unshifted(value, hp, i) == AddShifted(value, hp, 0)

\* value += hp << (i * 8)
highPart(value, hp, i) == AddShifted(value, hp, i)

RECURSIVE ReadNumberLoop(_, _, _, _)
\* The loop of ReadNumber from round i on; the mask of round i is 0x80 >> i.
ReadNumberLoop(first, i, value, r) ==
  IF i >= NumberBytes THEN [val |-> value, err |-> "nil", r |-> r]
  ELSE IF Bit(first, 7 - i) = 0
  THEN [val |-> highPart(value, first % Pow2(7 - i), i), err |-> "nil", r |-> r]
  ELSE LET b == ReadByte(r) IN
       IF b.err # "nil" THEN [val |-> Uint64Zero, err |-> b.err, r |-> b.r]
       ELSE ReadNumberLoop(first, i + 1, OrShifted(value, b.val, i), b.r)

\* headers.ReadNumber
ReadNumber(r) ==
  LET first == ReadByte(r) IN
  IF first.err # "nil" THEN [val |-> Uint64Zero, err |-> first.err, r |-> first.r]
  ELSE ReadNumberLoop(first.val, 0, Uint64Zero, first.r)

\* u64 > MaxNumber (0x7FFFFFFF)
AboveMaxNumber(u64) == u64[4] > MaxNumberByte4 \/ \E j \in 5..NumberBytes : u64[j] # 0

\* int(u64) for a u64 that is at most MaxNumber.
ToInt(u64) == u64[1] + 256 * u64[2] + 65536 * u64[3] + 16777216 * u64[4]

\* headers.ReadNumberInt
ReadNumberInt(r) ==
  LET n == ReadNumber(r) IN
  IF AboveMaxNumber(n.val) THEN [val |-> 0, err |-> "ErrInvalidNumber", r |-> n.r]
  ELSE [val |-> ToInt(n.val), err |-> n.err, r |-> n.r]

\* io.ReadFull of n bytes, as binary.Read calls it: io.EOF when no byte is left,
\* io.ErrUnexpectedEOF when fewer than n are.
ReadFull(r, n) ==
  IF n = 0 THEN [val |-> <<>>, err |-> "nil", r |-> r]
  ELSE IF r = <<>> THEN [val |-> <<>>, err |-> "EOF", r |-> r]
  ELSE IF Len(r) < n THEN [val |-> <<>>, err |-> "ErrUnexpectedEOF", r |-> <<>>]
  ELSE [val |-> SubSeq(r, 1, n), err |-> "nil", r |-> SubSeq(r, n + 1, Len(r))]

\* headers.ReadUint32 and headers.ReadUint64
ReadUint32(r) == ReadFull(r, 4)

ReadUint64(r) == ReadFull(r, 8)

RECURSIVE ReadBoolVectorLoop(_, _, _, _, _)
\* The loop of ReadBoolVector at element i (1-based) of length; bit is the place of
\* the mask in the byte b, -1 when the mask is 0.
ReadBoolVectorLoop(r, length, i, b, bit) ==
  IF i > length THEN [val |-> <<>>, err |-> "nil", r |-> r]
  ELSE IF bit < 0
  THEN LET nb == ReadByte(r) IN
       IF nb.err # "nil" THEN [val |-> <<>>, err |-> nb.err, r |-> nb.r]
       ELSE ReadBoolVectorLoop(nb.r, length, i, nb.val, 7)
  ELSE LET rest == ReadBoolVectorLoop(r, length, i + 1, b, bit - 1) IN
       IF rest.err # "nil" THEN rest
       ELSE [rest EXCEPT !.val = <<Bit(b, bit) = 1>> \o @]

\* headers.ReadBoolVector
ReadBoolVector(r, length) == ReadBoolVectorLoop(r, length, 1, 0, -1)

\* headers.ReadOptionalBoolVector
ReadOptionalBoolVector(r, length) ==
  LET allDefined == ReadByte(r) IN
  IF allDefined.err # "nil" THEN [val |-> <<>>, err |-> allDefined.err, r |-> allDefined.r]
  ELSE IF allDefined.val = 0 THEN ReadBoolVector(allDefined.r, length)
  ELSE [val |-> [i \in 1..length |-> TRUE], err |-> "nil", r |-> allDefined.r]

RECURSIVE ReadDefined(_, _, _, _)
\* The loop that reads a value of width bytes for every defined element from i on.
ReadDefined(r, defined, i, width) ==
  IF i > Len(defined) THEN [val |-> <<>>, err |-> "nil", r |-> r]
  ELSE IF ~defined[i]
  THEN LET rest == ReadDefined(r, defined, i + 1, width) IN
       IF rest.err # "nil" THEN rest ELSE [rest EXCEPT !.val = <<<<>>>> \o @]
  ELSE LET v == ReadFull(r, width) IN
       IF v.err # "nil" THEN [val |-> <<>>, err |-> v.err, r |-> v.r]
       ELSE LET rest == ReadDefined(v.r, defined, i + 1, width) IN
            IF rest.err # "nil" THEN rest ELSE [rest EXCEPT !.val = <<v.val>> \o @]

\* headers.ReadDigests
ReadDigests(r, length) ==
  LET defined == ReadOptionalBoolVector(r, length) IN
  IF defined.err # "nil" THEN defined
  ELSE ReadDefined(defined.r, defined.val, 1, 4)

\* The vector readers that hold an external byte after the defined vector.
ReadExternalVector(r, numFiles, width) ==
  LET defined == ReadOptionalBoolVector(r, numFiles) IN
  IF defined.err # "nil" THEN defined
  ELSE LET external == ReadByte(defined.r) IN
       IF external.err # "nil" THEN [val |-> <<>>, err |-> external.err, r |-> external.r]
       ELSE IF external.val # 0
       THEN [val |-> <<>>, err |-> "ErrAdditionalStreamsNotImplemented", r |-> external.r]
       ELSE ReadDefined(external.r, defined.val, 1, width)

\* headers.ReadNumberVector, which ReadDateTimeVector converts element by element.
ReadNumberVector(r, numFiles) == ReadExternalVector(r, numFiles, 8)

ReadDateTimeVector(r, numFiles) == ReadNumberVector(r, numFiles)

\* headers.ReadAttributeVector
ReadAttributeVector(r, numFiles) == ReadExternalVector(r, numFiles, 4)

\* First bytes of a number, two for each count of leading 1-bits where there are two.
FirstBytes == {0, 127, 128, 191, 192, 223, 224, 239, 240, 247, 248, 251, 252, 253, 254, 255}

\* The inputs of ReadNumber: a first byte and up to NumberBytes further bytes, the
\* numbers around MaxNumber, and the empty input.
NumberInputs ==
  {<<>>}
    \cup {<<f>> \o t : f \in FirstBytes, t \in SeqsUpTo({0, 255}, NumberBytes)}
    \cup {<<240>> \o t : t \in [1..4 -> {0, 127, 128, 255}]}

\* ReadNumber and ReadNumberInt applied to the same bytes.
ParseNumber ==
  /\ call.op = "none"
  /\ \E r \in NumberInputs :
       call' = [op |-> "ReadNumber", in |-> r,
                out |-> [u64 |-> ReadNumber(r), int |-> ReadNumberInt(r)]]
  /\ UNCHANGED <<IdleVars, Shared>>

VectorReaders ==
  {"ReadBoolVector", "ReadOptionalBoolVector", "ReadDigests", "ReadDateTimeVector",
   "ReadAttributeVector"}

ReadVector(reader, r, length) ==
  CASE reader = "ReadBoolVector" -> ReadBoolVector(r, length)
    [] reader = "ReadOptionalBoolVector" -> ReadOptionalBoolVector(r, length)
    [] reader = "ReadDigests" -> ReadDigests(r, length)
    [] reader = "ReadDateTimeVector" -> ReadDateTimeVector(r, length)
    [] reader = "ReadAttributeVector" -> ReadAttributeVector(r, length)

\* The inputs of a vector reader of length elements, whole and cut short: the byte
\* that says whether all elements are defined or the bits, the external byte, and
\* the values.
VectorInputs(length) ==
  UNION {SeqsUpTo({0}, k) : k \in {0, 1, 3, 4, 7, 8}}
    \cup {<<b>> \o t : b \in {1, 128, 192}, t \in UNION {SeqsUpTo({0}, k) : k \in {0, 1, 4, 5, 8, 9}}}
    \cup {<<b, 0>> \o [j \in 1..(w * length) |-> 0] : b \in {1}, w \in {4, 8}}
    \cup {<<0, 192, 0>> \o [j \in 1..(w * length) |-> 0] : w \in {4, 8}}

\* A vector reader applied to bytes.
ParseVector ==
  /\ call.op = "none"
  /\ \E reader \in VectorReaders : \E length \in 0..MaxVector : \E r \in VectorInputs(length) :
       call' = [op |-> "ReadVector", in |-> [reader |-> reader, length |-> length, r |-> r],
                out |-> ReadVector(reader, r, length)]
  /\ UNCHANGED <<IdleVars, Shared>>

----------------------------------------------------------------------------
\* PackInfo: headers.ReadPackInfo and the part of Reader.extract that binds the
\* packed streams to the inputs of the folders.

MaxPackStreams == 2
MaxPackTags == 2
MaxPackedFolders == 2
MaxPackedIndices == 2

k7zEnd == 0
k7zUnpackInfo == 7
k7zSize == 9
k7zCRC == 10

RECURSIVE ReadNumbers(_, _)
\* n numbers read one after the other: the loop of the Size section.
ReadNumbers(r, n) ==
  IF n = 0 THEN [val |-> <<>>, err |-> "nil", r |-> r]
  ELSE LET x == ReadNumber(r) IN
       IF x.err # "nil" THEN [val |-> <<>>, err |-> x.err, r |-> x.r]
       ELSE LET rest == ReadNumbers(x.r, n - 1) IN
            IF rest.err # "nil" THEN rest ELSE [rest EXCEPT !.val = <<x.val>> \o @]

\* What ReadPackInfo returns at the End tag.
packInfoEnd(PackSizes) == "nil"

\* PackSizes after the Size section: make([]uint64, numPackStreams+1) with the first
\* numPackStreams elements read.
makePackSizes(sizes) == sizes \o <<Uint64Zero>>

RECURSIVE ReadPackInfoLoop(_, _, _)
\* The tag loop of ReadPackInfo.
ReadPackInfoLoop(r, numPackStreams, PackSizes) ==
  LET id == ReadByte(r) IN
  IF id.err # "nil" THEN [PackSizes |-> <<>>, err |-> id.err, r |-> id.r]
  ELSE IF id.val = k7zSize
  THEN LET s == ReadNumbers(id.r, numPackStreams) IN
       IF s.err # "nil" THEN [PackSizes |-> <<>>, err |-> s.err, r |-> s.r]
       ELSE ReadPackInfoLoop(s.r, numPackStreams, makePackSizes(s.val))
  ELSE IF id.val = k7zCRC
  THEN [PackSizes |-> <<>>, err |-> "ErrPackInfoCRCsNotImplemented", r |-> id.r]
  ELSE IF id.val = k7zEnd
  THEN [PackSizes |-> IF packInfoEnd(PackSizes) = "nil" THEN PackSizes ELSE <<>>,
        err |-> packInfoEnd(PackSizes), r |-> id.r]
  ELSE [PackSizes |-> <<>>, err |-> "ErrUnexpectedPropertyID", r |-> id.r]

\* headers.ReadPackInfo
ReadPackInfo(r) ==
  LET PackPos == ReadNumber(r) IN
  IF PackPos.err # "nil" THEN [PackSizes |-> <<>>, err |-> PackPos.err, r |-> PackPos.r]
  ELSE LET numPackStreams == ReadNumberInt(PackPos.r) IN
       IF numPackStreams.err # "nil"
       THEN [PackSizes |-> <<>>, err |-> numPackStreams.err, r |-> numPackStreams.r]
       ELSE ReadPackInfoLoop(numPackStreams.r, numPackStreams.val, <<>>)

RECURSIVE bindInputs(_, _, _, _)
\* Reader.extract, the loop over the folders from folder i on that binds the packed
\* streams: packed[i] is len(folder.PackedIndices).  bound: for every folder the
\* places in PackSizes (0-based) its inputs were given.
bindInputs(packed, i, packedIndicesOffset, numSizes) ==
  IF i > Len(packed) THEN [err |-> "nil", bound |-> <<>>]
  ELSE LET n == IF packed[i] = 0 THEN 1 ELSE packed[i] IN
       IF \E index \in 0..(n - 1) : packedIndicesOffset + index >= numSizes
       THEN [err |-> "ErrInvalidPackInfo", bound |-> <<>>]
       ELSE LET rest == bindInputs(packed, i + 1, packedIndicesOffset + n, numSizes) IN
            IF rest.err # "nil" THEN rest
            ELSE [rest EXCEPT !.bound =
                    <<[index \in 1..n |-> packedIndicesOffset + index - 1]>> \o @]

\* The tags of a PackInfo after the pack position and the count.
PackTags == {"Size", "CRC", "End", "UnpackInfo"}

RECURSIVE PackTagBytes(_, _)
PackTagBytes(tags, n) ==
  IF tags = <<>> THEN <<>>
  ELSE (CASE Head(tags) = "Size" -> <<k7zSize>> \o [j \in 1..n |-> j]
          [] Head(tags) = "CRC" -> <<k7zCRC>>
          [] Head(tags) = "End" -> <<k7zEnd>>
          [] Head(tags) = "UnpackInfo" -> <<k7zUnpackInfo>>) \o PackTagBytes(Tail(tags), n)

\* The bytes of a PackInfo at position 0 that declares n pack streams.
PackInfoBytes(n, tags) == <<0, n>> \o PackTagBytes(tags, n)

\* ReadPackInfo applied to the bytes of a PackInfo, and the inputs of folders with
\* the given numbers of packed streams bound to its sizes.
ParsePackInfo ==
  /\ call.op = "none"
  /\ \E n \in 0..MaxPackStreams : \E tags \in SeqsUpTo(PackTags, MaxPackTags) :
     \E packed \in SeqsUpTo(0..MaxPackedIndices, MaxPackedFolders) :
       LET p == ReadPackInfo(PackInfoBytes(n, tags)) IN
       call' = [op |-> "ReadPackInfo",
                in |-> [n |-> n, tags |-> tags, packed |-> packed],
                out |-> [p |-> p,
                         x |-> IF p.err # "nil" THEN [err |-> p.err, bound |-> <<>>]
                               ELSE bindInputs(packed, 1, 0, Len(p.PackSizes))]]
  /\ UNCHANGED <<IdleVars, Shared>>

----------------------------------------------------------------------------
\* The counts of the header: headers.ReadCoderInfo, ReadBindPairsInfo, ReadFolder, and
\* the parts of ReadUnpackInfo and ReadFilesInfo that read a count and allocate.
\* allocs: the arrays made, each with what it holds and its length.

MaxInOutStreams == 4
MaxPropertyDataSize == 128
MaxCodersInFolder == 4
MaxPackedStreamsInFolder == 4
MaxFolderCount == 1073741824
MaxNumber == 2147483647
k7zFolder == 11
MaxFilesInfoBytes == 8

\* r.Read(b) for a b of n bytes, one call: the bytes that are left, at most n, and
\* io.EOF when none is.  The rest of b stays 0.
Read(r, n) ==
  IF n = 0 THEN [val |-> <<>>, err |-> "nil", r |-> r]
  ELSE IF r = <<>> THEN [val |-> [j \in 1..n |-> 0], err |-> "EOF", r |-> r]
  ELSE LET m == Min(n, Len(r)) IN
       [val |-> [j \in 1..n |-> IF j <= m THEN r[j] ELSE 0], err |-> "nil",
        r |-> SubSeq(r, m + 1, Len(r))]

Uint32Zero == <<0, 0, 0, 0>>

\* CodecID |= uint32(byte) << (shift * 8), the uint32 written as its 4 bytes, least
\* significant first: a shift of 32 bits or more leaves 0.
shiftIntoID(CodecID, byte, shift) ==
  IF shift >= 4 THEN CodecID ELSE [CodecID EXCEPT ![shift + 1] = OrByte(@, byte, 0)]

RECURSIVE CodecIDLoop(_, _, _, _)
\* for i := codecIDSize; i > 0; i--
CodecIDLoop(b, codecIDSize, i, CodecID) ==
  IF i <= 0 THEN CodecID
  ELSE CodecIDLoop(b, codecIDSize, i - 1, shiftIntoID(CodecID, b[i], codecIDSize - i))

NoCoder == [CodecID |-> Uint32Zero, Properties |-> <<>>, NumInStreams |-> 1, NumOutStreams |-> 1]

CoderFail(e, r, allocs) == [coder |-> NoCoder, err |-> e, r |-> r, allocs |-> allocs]

\* ReadCoderInfo and ReadFolder are written as one operator per read, each given the
\* result of the read before it, from the last read to the first.

\* ReadCoderInfo after the read of the properties.
coderProperties(CodecID, allocs, NumInStreams, NumOutStreams, props) ==
  IF props.err # "nil" THEN CoderFail(props.err, props.r, allocs)
  ELSE [coder |-> [CodecID |-> CodecID, Properties |-> props.val,
                   NumInStreams |-> NumInStreams, NumOutStreams |-> NumOutStreams],
        err |-> "nil", r |-> props.r, allocs |-> allocs]

\* ReadCoderInfo after the read of the size of the properties.
coderPropertySize(CodecID, allocs, NumInStreams, NumOutStreams, size) ==
  IF size.err # "nil" THEN CoderFail(size.err, size.r, allocs)
  ELSE IF size.val <= 0 \/ size.val > MaxPropertyDataSize
  THEN CoderFail("ErrInvalidPropertyDataSize", size.r, allocs)
  ELSE coderProperties(CodecID, allocs \o <<[of |-> "properties", len |-> size.val]>>,
                       NumInStreams, NumOutStreams, Read(size.r, size.val))

\* ReadCoderInfo after the read of NumOutStreams (1 for a coder that is not complex).
coderOutStreams(attributes, CodecID, allocs, NumInStreams, outs) ==
  IF outs.err # "nil" THEN CoderFail(outs.err, outs.r, allocs)
  ELSE IF outs.val = 0 \/ outs.val > MaxInOutStreams
  THEN CoderFail("ErrInvalidStreamCount", outs.r, allocs)
  ELSE IF Bit(attributes, 5) # 1
  THEN [coder |-> [CodecID |-> CodecID, Properties |-> <<>>,
                   NumInStreams |-> NumInStreams, NumOutStreams |-> outs.val],
        err |-> "nil", r |-> outs.r, allocs |-> allocs]
  ELSE coderPropertySize(CodecID, allocs, NumInStreams, outs.val, ReadNumberInt(outs.r))

\* ReadCoderInfo after the read of NumInStreams (1 for a coder that is not complex).
coderInStreams(attributes, CodecID, allocs, ins) ==
  IF ins.err # "nil" THEN CoderFail(ins.err, ins.r, allocs)
  ELSE IF ins.val = 0 \/ ins.val > MaxInOutStreams
  THEN CoderFail("ErrInvalidStreamCount", ins.r, allocs)
  ELSE coderOutStreams(attributes, CodecID, allocs, ins.val,
                       IF Bit(attributes, 4) = 1 THEN ReadNumberInt(ins.r)
                       ELSE [val |-> 1, err |-> "nil", r |-> ins.r])

\* ReadCoderInfo after the read b of the codecIDSize bytes of the ID.
coderID(attributes, b) ==
  LET codecIDSize == attributes % 16
      allocs == IF codecIDSize > 0 THEN <<[of |-> "codecID", len |-> codecIDSize]>> ELSE <<>>
  IN
  IF b.err # "nil" THEN CoderFail(b.err, b.r, allocs)
  ELSE coderInStreams(attributes, CodecIDLoop(b.val, codecIDSize, codecIDSize, Uint32Zero),
                      allocs,
                      IF Bit(attributes, 4) = 1 THEN ReadNumberInt(b.r)
                      ELSE [val |-> 1, err |-> "nil", r |-> b.r])

\* ReadCoderInfo after the read of the attribute byte.
coderAttributes(attributes) ==
  IF attributes.err # "nil" THEN CoderFail(attributes.err, attributes.r, <<>>)
  ELSE coderID(attributes.val, Read(attributes.r, attributes.val % 16))

\* headers.ReadCoderInfo
ReadCoderInfo(r) == coderAttributes(ReadByte(r))

RECURSIVE ReadCoders(_, _)
\* The loop of ReadFolder that fills CoderInfo, after the coder c and the rest are read.
codersRest(c, rest) ==
  [val |-> IF rest.err # "nil" THEN <<>> ELSE <<c.coder>> \o rest.val,
   err |-> rest.err, r |-> rest.r, allocs |-> c.allocs \o rest.allocs]

\* The loop after the coder c is read, n coders the last included to go.
codersNext(c, n) ==
  IF c.err # "nil" THEN [val |-> <<>>, err |-> c.err, r |-> c.r, allocs |-> c.allocs]
  ELSE codersRest(c, ReadCoders(c.r, n - 1))

\* The loop of ReadFolder that fills CoderInfo.
ReadCoders(r, n) ==
  IF n = 0 THEN [val |-> <<>>, err |-> "nil", r |-> r, allocs |-> <<>>]
  ELSE codersNext(ReadCoderInfo(r), n)

\* headers.ReadBindPairsInfo
ReadBindPairsInfo(r) ==
  LET InIndex == ReadNumberInt(r) IN
  IF InIndex.err # "nil" THEN [val |-> <<>>, err |-> InIndex.err, r |-> InIndex.r]
  ELSE LET OutIndex == ReadNumberInt(InIndex.r) IN
       IF OutIndex.err # "nil" THEN [val |-> <<>>, err |-> OutIndex.err, r |-> OutIndex.r]
       ELSE [val |-> <<InIndex.val, OutIndex.val>>, err |-> "nil", r |-> OutIndex.r]

RECURSIVE ReadBindPairs(_, _)
\* The loop of ReadFolder that fills BindPairsInfo.
ReadBindPairs(r, n) ==
  IF n <= 0 THEN [val |-> <<>>, err |-> "nil", r |-> r]
  ELSE LET p == ReadBindPairsInfo(r) IN
       IF p.err # "nil" THEN [val |-> <<>>, err |-> p.err, r |-> p.r]
       ELSE LET rest == ReadBindPairs(p.r, n - 1) IN
            IF rest.err # "nil" THEN rest ELSE [rest EXCEPT !.val = <<p.val>> \o @]

RECURSIVE ReadInts(_, _)
\* The loop of ReadFolder that fills PackedIndices.
ReadInts(r, n) ==
  IF n = 0 THEN [val |-> <<>>, err |-> "nil", r |-> r]
  ELSE LET x == ReadNumberInt(r) IN
       IF x.err # "nil" THEN [val |-> <<>>, err |-> x.err, r |-> x.r]
       ELSE LET rest == ReadInts(x.r, n - 1) IN
            IF rest.err # "nil" THEN rest ELSE [rest EXCEPT !.val = <<x.val>> \o @]

\* Folder.NumInStreamsTotal
NumInStreamsTotal(CoderInfo) == SumSeq([i \in 1..Len(CoderInfo) |-> CoderInfo[i].NumInStreams])

\* Folder.FindBindPairForInStream(i) < 0
Unbound(BindPairsInfo, i) == \A p \in 1..Len(BindPairsInfo) : BindPairsInfo[p][1] # i

FolderFail(e, r, allocs) ==
  [folder |-> [CoderInfo |-> <<>>, BindPairsInfo |-> <<>>, PackedIndices |-> <<>>],
   err |-> e, r |-> r, allocs |-> allocs]

\* Mutant: the coders are allocated before their count is tested.
coderCountError_late(numCoders) == "nil"

\* The test of the coder count in ReadFolder.
coderCountError(numCoders) ==
  IF numCoders = 0 \/ numCoders > MaxCodersInFolder THEN "ErrInvalidCoderInFolderCount"
  ELSE "nil"

\* ReadFolder after the read idx of the packed indices of a folder of several packed
\* streams.
folderPackedIndices(CoderInfo, BindPairsInfo, allocs, idx) ==
  IF idx.err # "nil" THEN FolderFail(idx.err, idx.r, allocs)
  ELSE [folder |-> [CoderInfo |-> CoderInfo, BindPairsInfo |-> BindPairsInfo,
                    PackedIndices |-> idx.val],
        err |-> "nil", r |-> idx.r, allocs |-> allocs]

\* ReadFolder after the bind pairs are read: r is what is left to read.
folderPackedStreams(CoderInfo, BindPairsInfo, allocs, r) ==
  LET numInStreamsTotal == NumInStreamsTotal(CoderInfo)
      numPackedStreams == numInStreamsTotal - Len(BindPairsInfo)
  IN
  IF numPackedStreams > 1
  THEN IF numPackedStreams > MaxPackedStreamsInFolder
       THEN FolderFail("ErrInvalidPackedStreamsCount", r, allocs)
       ELSE folderPackedIndices(CoderInfo, BindPairsInfo,
                                allocs \o <<[of |-> "packedIndices", len |-> numPackedStreams]>>,
                                ReadInts(r, numPackedStreams))
  ELSE [folder |-> [CoderInfo |-> CoderInfo, BindPairsInfo |-> BindPairsInfo,
                    PackedIndices |->
                      IF numPackedStreams = 1
                         /\ \E i \in 0..(numInStreamsTotal - 1) : Unbound(BindPairsInfo, i)
                      THEN <<CHOOSE i \in 0..(numInStreamsTotal - 1) :
                               /\ Unbound(BindPairsInfo, i)
                               /\ \A j \in 0..(i - 1) : ~Unbound(BindPairsInfo, j)>>
                      ELSE <<>>],
        err |-> "nil", r |-> r, allocs |-> allocs]

\* ReadFolder after the read pairs of the bind pairs.
folderBindPairs(CoderInfo, allocs, pairs) ==
  IF pairs.err # "nil" THEN FolderFail(pairs.err, pairs.r, allocs)
  ELSE folderPackedStreams(CoderInfo, pairs.val, allocs, pairs.r)

\* ReadFolder after the read coders of the numCoders coders.
folderCoders(numCoders, coders) ==
  IF coders.err # "nil"
  THEN FolderFail(coders.err, coders.r,
                  <<[of |-> "coders", len |-> numCoders]>> \o coders.allocs)
  ELSE folderBindPairs(coders.val,
                       <<[of |-> "coders", len |-> numCoders]>> \o coders.allocs
                         \o <<[of |-> "bindPairs", len |-> numCoders - 1]>>,
                       ReadBindPairs(coders.r, numCoders - 1))

\* ReadFolder after the read of the number of coders.
folderNumCoders(numCoders) ==
  IF numCoders.err # "nil" THEN FolderFail(numCoders.err, numCoders.r, <<>>)
  ELSE IF coderCountError(numCoders.val) # "nil"
  THEN FolderFail(coderCountError(numCoders.val), numCoders.r, <<>>)
  ELSE folderCoders(numCoders.val, ReadCoders(numCoders.r, numCoders.val))

\* headers.ReadFolder
ReadFolder(r) == folderNumCoders(ReadNumberInt(r))

RECURSIVE ReadFolders(_, _)
\* The loop of ReadUnpackInfo that fills Folders, after the folder f and the rest are
\* read.
foldersRest(f, rest) ==
  [err |-> rest.err, r |-> rest.r, allocs |-> f.allocs \o rest.allocs, read |-> rest.read + 1]

\* The loop after the folder f is read, n folders the last included to go.
foldersNext(f, n) ==
  IF f.err # "nil" THEN [err |-> f.err, r |-> f.r, allocs |-> f.allocs, read |-> 0]
  ELSE foldersRest(f, ReadFolders(f.r, n - 1))

\* The loop of ReadUnpackInfo that fills Folders; it ends at the first error.
ReadFolders(r, n) ==
  IF n = 0 THEN [err |-> "nil", r |-> r, allocs |-> <<>>, read |-> 0]
  ELSE foldersNext(ReadFolder(r), n)

\* ReadUnpackInfo after the read of the external byte.
unpackExternal(numFolders, external) ==
  IF external.err # "nil"
  THEN [err |-> external.err, r |-> external.r, allocs |-> <<>>, read |-> 0]
  ELSE IF external.val # 0
  THEN [err |-> "ErrAdditionalStreamsNotImplemented", r |-> external.r,
        allocs |-> <<>>, read |-> 0]
  ELSE [ReadFolders(external.r, numFolders)
          EXCEPT !.allocs = <<[of |-> "folders", len |-> numFolders]>> \o @]

\* ReadUnpackInfo after the read of the number of folders.
unpackNumFolders(numFolders) ==
  IF numFolders.err # "nil"
  THEN [err |-> numFolders.err, r |-> numFolders.r, allocs |-> <<>>, read |-> 0]
  ELSE IF numFolders.val > MaxFolderCount
  THEN [err |-> "ErrInvalidCountExceeded", r |-> numFolders.r, allocs |-> <<>>, read |-> 0]
  ELSE unpackExternal(numFolders.val, ReadByte(numFolders.r))

\* ReadUnpackInfo after the read of the property ID.
unpackTag(tag) ==
  IF tag.err # "nil" THEN [err |-> tag.err, r |-> tag.r, allocs |-> <<>>, read |-> 0]
  ELSE IF tag.val # k7zFolder
  THEN [err |-> "ErrUnexpectedPropertyID", r |-> tag.r, allocs |-> <<>>, read |-> 0]
  ELSE unpackNumFolders(ReadNumberInt(tag.r))

\* headers.ReadUnpackInfo up to the end of the folders.
ReadUnpackInfoFolders(r) == unpackTag(ReadByte(r))

\* headers.ReadFilesInfo up to the first property ID.  more: a property follows.
ReadFilesInfoCount(r, maxFileCount) ==
  LET numFiles == ReadNumberInt(r) IN
  IF numFiles.err # "nil"
  THEN [err |-> numFiles.err, r |-> numFiles.r, allocs |-> <<>>, more |-> FALSE]
  ELSE IF numFiles.val > maxFileCount
  THEN [err |-> "ErrInvalidFileCount", r |-> numFiles.r, allocs |-> <<>>, more |-> FALSE]
  ELSE LET a == <<[of |-> "files", len |-> numFiles.val]>>
           id == ReadByte(numFiles.r)
       IN [err |-> id.err, r |-> id.r, allocs |-> a,
           more |-> id.err = "nil" /\ id.val # k7zEnd]

\* The FilesInfo case of ReadHeader: the count is capped by a third of the bytes
\* the header has left.
ReadHeaderFilesInfo(r) == ReadFilesInfoCount(r, Len(r) \div 3)

\* The bytes of a number; a negative v stands for 2^32, a number above MaxNumber.
EncodeNumber(v) ==
  IF v < 0 THEN <<255, 0, 0, 0, 0, 1, 0, 0, 0>>
  ELSE IF v < 128 THEN <<v>>
  ELSE <<240, v % 256, (v \div 256) % 256, (v \div 65536) % 256, v \div 16777216>>

\* The counts tried against the cap of coders and of streams, and the sizes tried
\* against the cap of the property data.
CountInputs == {-1, 0, 1, MaxInOutStreams, MaxInOutStreams + 1}

PropertySizeInputs == {-1, 0, 1, MaxPropertyDataSize, MaxPropertyDataSize + 1}

FolderCountInputs == {-1, 0, 1, MaxFolderCount, MaxFolderCount + 1, MaxNumber}

\* A coder of the inputs: complex or not, with properties or not.
CoderInputs ==
  [complex : {FALSE}, ins : {1}, outs : {1}, props : {FALSE}, size : {1}]
    \cup [complex : {TRUE}, ins : CountInputs, outs : CountInputs, props : {FALSE}, size : {1}]
    \cup [complex : {FALSE}, ins : {1}, outs : {1}, props : {TRUE}, size : PropertySizeInputs]

\* The bytes of a coder with the one-byte ID 0.
CoderBytes(c) ==
  <<1 + (IF c.complex THEN 16 ELSE 0) + (IF c.props THEN 32 ELSE 0), 0>>
    \o (IF c.complex THEN EncodeNumber(c.ins) \o EncodeNumber(c.outs) ELSE <<>>)
    \o (IF c.props
        THEN EncodeNumber(c.size) \o [j \in 1..(IF c.size > 0 /\ c.size < 200 THEN c.size ELSE 0) |-> 0]
        ELSE <<>>)

\* The bytes of a folder of numCoders coders c, bound in a chain, with the packed
\* indices that are left.
FolderBytes(numCoders, c) ==
  LET n == IF numCoders < 0 \/ numCoders > 8 THEN 0 ELSE numCoders IN
  EncodeNumber(numCoders)
    \o Concat([i \in 1..n |-> CoderBytes(c)])
    \o Concat([i \in 1..(n - 1) |-> <<i, i - 1>>])
    \o [j \in 1..MaxPackedStreamsInFolder |-> j - 1]

\* ReadFolder applied to the bytes of a folder.
ParseFolder ==
  /\ call.op = "none"
  /\ \E numCoders \in CountInputs : \E c \in CoderInputs :
       call' = [op |-> "ReadFolder", in |-> [numCoders |-> numCoders, c |-> c],
                out |-> ReadFolder(FolderBytes(numCoders, c))]
  /\ UNCHANGED <<IdleVars, Shared>>

\* ReadUnpackInfo applied to a folder count and the bytes of held folders.
ParseUnpackInfo ==
  /\ call.op = "none"
  /\ \E numFolders \in FolderCountInputs : \E held \in 0..MaxParsedFolders :
       call' = [op |-> "ReadUnpackInfo", in |-> [numFolders |-> numFolders, held |-> held],
                out |-> ReadUnpackInfoFolders(
                          <<k7zFolder>> \o EncodeNumber(numFolders) \o <<0>>
                            \o Concat([i \in 1..held |-> <<1, 1, 0>>]))]
  /\ UNCHANGED <<IdleVars, Shared>>

\* The FilesInfo case of ReadHeader applied to a file count and the bytes after it.
ParseFilesInfo ==
  /\ call.op = "none"
  /\ \E numFiles \in {-1} \cup (0..(MaxFiles + 1)) : \E rest \in 0..MaxFilesInfoBytes :
       LET r == EncodeNumber(numFiles) \o [j \in 1..rest |-> 0] IN
       call' = [op |-> "ReadFilesInfo", in |-> [numFiles |-> numFiles, r |-> r],
                out |-> ReadHeaderFilesInfo(r)]
  /\ UNCHANGED <<IdleVars, Shared>>

----------------------------------------------------------------------------
\* Coder IDs, the properties of the AES coder, and the key cache used by one caller.

MaxIDBytes == 5
MaxBlob == 3

\* The IDs of coders: up to MaxIDBytes bytes, the most significant first.
CodecIDs == SeqsUpTo({0, 1}, MaxIDBytes)

\* The key under which extract looks up the coder that ReadCoderInfo reads from an
\* attribute byte that holds the length of the ID, followed by the ID.
registryKey(id) == ReadCoderInfo(<<Len(id)>> \o id).coder.CodecID

\* ReadCoderInfo applied to two IDs.
ParseCodecIDs ==
  /\ call.op = "none"
  /\ \E a \in CodecIDs : \E b \in CodecIDs :
       call' = [op |-> "CodecID", in |-> <<a, b>>, out |-> <<registryKey(a), registryKey(b)>>]
  /\ UNCHANGED <<IdleVars, Shared>>

\* The property blobs of an AES coder: the two bytes that hold the power and the
\* sizes of salt and IV, followed by up to MaxBlob bytes.
AESOptions ==
  SeqsUpTo({0}, 1)
    \cup {<<b0, b1>> \o t : b0 \in {0, 64, 128, 192, 63}, b1 \in {0, 1, 16, 17},
                            t \in SeqsUpTo({7}, MaxBlob)}

\* The decompressor registered for AES, up to the call of NewAESDecrypter, for one
\* input stream.  A slice expression past the capacity of options panics; the
\* capacity of a property blob is its length.
aesDecompressor(options) ==
  IF Len(options) < 2 THEN [err |-> "ErrNotSupported", salt |-> <<>>, iv |-> <<>>, power |-> 0]
  ELSE
    LET saltSize == (Bit(options[1], 7) + (options[2] \div 16)) % 256
        ivSize == (Bit(options[1], 6) + (options[2] % 16)) % 256
        power == options[1] % 64
        rest == SubSeq(options, 3, Len(options))
    IN
    IF saltSize > Len(rest) THEN [err |-> "panic", salt |-> <<>>, iv |-> <<>>, power |-> power]
    ELSE IF saltSize + ivSize > Len(rest)
    THEN [err |-> "panic", salt |-> SubSeq(rest, 1, saltSize), iv |-> <<>>, power |-> power]
    ELSE [err |-> "nil", salt |-> SubSeq(rest, 1, saltSize),
          iv |-> SubSeq(rest, saltSize + 1, saltSize + ivSize), power |-> power]

\* The AES decompressor applied to a property blob.
ParseAESOptions ==
  /\ call.op = "none"
  /\ \E options \in AESOptions :
       call' = [op |-> "aesDecompressor", in |-> options, out |-> aesDecompressor(options)]
  /\ UNCHANGED <<IdleVars, Shared>>

\* Salts that hold the byte a password holds.
SharedSalts == SeqsUpTo({97}, MaxSalt)

SharedKeyArgs == [power : Powers, salt : Salts \cup SharedSalts, password : Passwords]

\* keyManager.Key run alone on the cache: the key it returns and the cache it leaves.
KeyCached(cache, a) ==
  IF cacheKey(a) \in DOMAIN cache THEN [key |-> cache[cacheKey(a)], cache |-> cache]
  ELSE [key |-> Key(a),
        cache |-> [k \in DOMAIN cache \cup {cacheKey(a)} |->
                     IF k = cacheKey(a) THEN Key(a) ELSE cache[k]]]

\* Key called for a and then for b by one caller, the cache empty at first.
DeriveTwice ==
  /\ call.op = "none"
  /\ \E a \in SharedKeyArgs : \E b \in SharedKeyArgs :
       LET first == KeyCached(<<>>, a)
           second == KeyCached(first.cache, b)
       IN call' = [op |-> "Key", in |-> <<a, b>>, out |-> <<first.key, second.key>>]
  /\ UNCHANGED <<IdleVars, Shared>>

----------------------------------------------------------------------------
\* The functions of the parser and of the coders applied to inputs.

NextParse ==
  \/ ParseHeader \/ DeriveKey \/ ParseSubStreams
  \/ ParseNumber \/ ParseVector \/ ParsePackInfo
  \/ ParseFolder \/ ParseUnpackInfo \/ ParseFilesInfo
  \/ ParseCodecIDs \/ ParseAESOptions \/ DeriveTwice

SpecParse == InitParse /\ [][NextParse]_vars

----------------------------------------------------------------------------
\* The AES and the Delta coder, read by one caller until a Read returns an error.
\* call holds the coder: in is its input, out the decoder, the part of the input
\* the underlying reader has not returned yet, the bytes returned and the last error.

MaxBlocks == 2
MaxRequest == 3
MaxDistance == 3
MaxDeltaInput == 3

deltaStateSize == 256

ZeroBytes(n) == [i \in 1..n |-> 0]

\* The block cipher is abstract: a substitution of bytes.
decipher(b) == (5 * b + 3) % 256

\* cbc.CryptBlocks on one block: the deciphered block combined with the previous
\* block of ciphertext.
CryptBlocks(iv, block) == [j \in 1..BlockSize |-> (decipher(block[j]) + iv[j]) % 256]

\* The loop of AESDecrypter.Read: while fewer than n bytes are buffered, one Read of
\* the underlying reader into d.buf, which returns the next chunk and leaves the rest
\* of d.buf as it was, then the decryption of d.buf in place, written to d.rbuf.
RECURSIVE AESDecrypterFill(_, _, _)
AESDecrypterFill(d, src, n) ==
  IF Len(d.rbuf) >= n THEN [d |-> d, src |-> src, err |-> "nil"]
  ELSE IF src = <<>> THEN [d |-> d, src |-> src, err |-> "EOF"]
  ELSE
    LET chunk == Head(src)
        read == chunk \o SubSeq(d.buf, Len(chunk) + 1, BlockSize)
        plain == CryptBlocks(d.iv, read)
    IN AESDecrypterFill([buf |-> plain, iv |-> read, rbuf |-> d.rbuf \o plain], Tail(src), n)

\* AESDecrypter.Read into a buffer of n > 0 bytes.
AESDecrypterRead(d, src, n) ==
  LET f == AESDecrypterFill(d, src, n) IN
  IF f.err # "nil" THEN [d |-> f.d, src |-> f.src, p |-> <<>>, err |-> f.err]
  ELSE [d |-> [f.d EXCEPT !.rbuf = SubSeq(@, n + 1, Len(@))], src |-> f.src,
        p |-> SubSeq(f.d.rbuf, 1, n), err |-> "nil"]

\* The input of the AES coder: whole blocks, every byte different.
Ciphertext(blocks) == [i \in 1..(blocks * BlockSize) |-> i]

\* What the reads of the underlying reader return: half blocks or blocks.
HalfBlock == BlockSize \div 2

Chunkings(length) ==
  {q \in SeqsUpTo({HalfBlock, BlockSize}, 2 * MaxBlocks) : SumSeq(q) = length}

RECURSIVE Split(_, _)
Split(input, q) ==
  IF q = <<>> THEN <<>>
  ELSE <<SubSeq(input, 1, Head(q))>> \o Split(SubSeq(input, Head(q) + 1, Len(input)), Tail(q))

\* NewAESDecrypter, with an IV of zero bytes, on an input and the chunks it comes in.
OpenAES ==
  /\ call.op = "none"
  /\ \E blocks \in 0..MaxBlocks : \E q \in Chunkings(blocks * BlockSize) :
       call' = [op |-> "AESDecrypter", in |-> Ciphertext(blocks),
                out |-> [d |-> [buf |-> ZeroBytes(BlockSize), iv |-> ZeroBytes(BlockSize),
                                rbuf |-> <<>>],
                         src |-> Split(Ciphertext(blocks), q), got |-> <<>>, err |-> "nil"]]
  /\ UNCHANGED <<IdleVars, Shared>>

\* One Read of the caller, into a buffer of some size.
ReadAES ==
  /\ call.op = "AESDecrypter" /\ call.out.err = "nil"
  /\ \E k \in 1..MaxRequest :
       LET x == AESDecrypterRead(call.out.d, call.out.src, k * HalfBlock)
       IN call' = [call EXCEPT !.out = [d |-> x.d, src |-> x.src, got |-> @.got \o x.p,
                                        err |-> x.err]]
  /\ UNCHANGED <<IdleVars, Shared>>

\* copy(dst[at:], src), at counted from 0.
copy(dst, at, src) ==
  LET n == Min(Len(src), Len(dst) - at)
  IN SubSeq(dst, 1, at) \o SubSeq(src, 1, n) \o SubSeq(dst, at + n + 1, Len(dst))

\* The two loops of DeltaDecoder.Read over p[:n]: i and j as in the source.
RECURSIVE deltaLoop(_, _, _, _, _)
deltaLoop(p, buf, i, j, delta) ==
  IF i >= Len(p) THEN [p |-> p, buf |-> buf, j |-> j]
  ELSE IF j = delta THEN deltaLoop(p, buf, i, 0, delta)
  ELSE LET b == (buf[j + 1] + p[i + 1]) % 256
       IN deltaLoop([p EXCEPT ![i + 1] = b], [buf EXCEPT ![j + 1] = b], i + 1, j + 1, delta)

\* DeltaDecoder.Read when the underlying Read returned the bytes chunk and the error e.
DeltaDecoderRead(d, chunk, e) ==
  IF e # "nil" THEN [d |-> d, p |-> chunk, err |-> e]
  ELSE
    LET buf == copy(ZeroBytes(deltaStateSize), 0, SubSeq(d.state, 1, d.delta))
        f == deltaLoop(chunk, buf, 0, 0, d.delta)
        j == IF f.j = d.delta THEN 0 ELSE f.j
        kept == copy(d.state, 0, SubSeq(f.buf, j + 1, d.delta))
    IN [d |-> [d EXCEPT !.state = copy(kept, d.delta - j, SubSeq(f.buf, 1, j))],
        p |-> f.p, err |-> "nil"]

DeltaInputs == SeqsUpTo({1, 200}, MaxDeltaInput)

\* The decompressor registered for Delta, given one property byte, on an input.
OpenDelta ==
  /\ call.op = "none"
  /\ \E option \in 0..(MaxDistance - 1) : \E input \in DeltaInputs :
       call' = [op |-> "DeltaDecoder", in |-> [input |-> input, delta |-> option + 1],
                out |-> [d |-> [state |-> ZeroBytes(deltaStateSize), delta |-> option + 1],
                         src |-> input, got |-> <<>>, err |-> "nil"]]
  /\ UNCHANGED <<IdleVars, Shared>>

\* One Read of the caller into a buffer of n bytes.  The underlying reader returns
\* some of the bytes that are left, the last of them with or without io.EOF, and
\* io.EOF alone when none is left.
ReadDelta ==
  /\ call.op = "DeltaDecoder" /\ call.out.err = "nil"
  /\ \E n \in 1..MaxRequest : \E k \in 0..Min(n, Len(call.out.src)) : \E eof \in BOOLEAN :
       /\ (k = 0) = (call.out.src = <<>>)
       /\ eof => k = Len(call.out.src)
       /\ call.out.src = <<>> => eof
       /\ LET x == DeltaDecoderRead(call.out.d, SubSeq(call.out.src, 1, k),
                                    IF eof THEN "EOF" ELSE "nil")
          IN call' = [call EXCEPT !.out = [d |-> x.d,
                                           src |-> SubSeq(call.out.src, k + 1, Len(call.out.src)),
                                           got |-> @.got \o x.p, err |-> x.err]]
  /\ UNCHANGED <<IdleVars, Shared>>

InitCoders == InitIdle /\ call = NoParse /\ NoShared

NextCoders == OpenAES \/ ReadAES \/ OpenDelta \/ ReadDelta

SpecCoders == InitCoders /\ [][NextCoders]_vars

----------------------------------------------------------------------------
\* Claims

\* The files with a body among the first k entries returned by Next.
NonEmptyYielded(k) == Cardinality({i \in 1..k : ~archive.files[yielded[i]]})

\* C1: over a valid archive the loop (Next, then Read to end-of-stream, repeated) never
\* gets an error other than end-of-stream from Next or from Read, never panics, and
\* ends, its last call being a Next that returned end-of-stream.
C1_LoopEndsWithoutError ==
  /\ [](loopPc # "open" /\ loopPc # "openfailed"
          => /\ pc # "crashed"
             /\ loopPc # "fail"
             /\ last.op \in {"Next", "Read"} => last.err \in {"nil", "EOF"})
  /\ [](loopPc = "done" => last.op = "Next" /\ last.err = "EOF")
  /\ <>(loopPc \in {"done", "openfailed"})

\* The loop has ended after a file with a body, in a later folder, was read to its end
\* and an empty-stream file was passed.
C1_Witness ==
  /\ loopPc = "done"
  /\ Len(yielded) = 2
  /\ NonEmptyYielded(2) = 1
  /\ Len(archive.subs) >= 2

\* C2: when Next has returned end-of-stream, it has yielded every entry of FilesInfo,
\* and as many entries with a body as the folders have sub-streams; so Next does not
\* return end-of-stream while declared files remain unyielded.
C2_CountsAtEnd ==
  (pc = "ready" /\ last.op = "Next" /\ last.err = "EOF")
    => /\ Len(yielded) = Len(archive.files)
       /\ NonEmptyYielded(Len(yielded)) = TotalStreams

RECURSIVE StreamAt(_, _)
\* The folder and the place in it of the j-th sub-stream in folder order, counting
\* from folder f.
StreamAt(f, j) ==
  IF j <= archive.subs[f] THEN <<f, j>> ELSE StreamAt(f + 1, j - archive.subs[f])

\* The bytes of the j-th sub-stream of the archive in folder order.
NthStreamBytes(j) == LET at == StreamAt(1, j) IN SubStreamBytes(at[1], at[2])

\* C3: the k-th FileInfo returned is FilesInfo[k-1], and when the j-th returned file
\* with a body has been read to its end, the bytes read are those of the j-th
\* sub-stream in folder order, whatever the sub-stream counts of the folders.
C3_FilesBoundInOrder ==
  /\ \A k \in 1..Len(yielded) : yielded[k] = k
  /\ LET j == NonEmptyYielded(Len(yielded)) IN
       (/\ pc = "ready" /\ err = "nil" /\ ~emptyStream
        /\ last.op = "Read" /\ last.err = "EOF"
        /\ j >= 1 /\ j <= TotalStreams)
         => got = NthStreamBytes(j)

\* The reader has failed: an error other than end-of-stream is cached.
Failed == err # "nil" /\ err # "EOF"

\* C4: an error other than end-of-stream that Next or Read returns is cached, and
\* from then on every call returns that error with no bytes and no FileInfo, and
\* changes no index and no folder.
C4_FailedIsAbsorbing ==
  /\ [](last.op \in {"Next", "Read"} /\ last.err \notin {"nil", "EOF", "panic"} => err = last.err)
  /\ [][Failed => /\ err' = err
                  /\ pc' = pc
                  /\ folderIndex' = folderIndex
                  /\ fileIndex' = fileIndex
                  /\ emptyStream' = emptyStream
                  /\ folders' = folders
                  /\ yielded' = yielded
                  /\ got' = got
                  /\ last'.err = err /\ last'.n = 0 /\ last'.fileInfo = 0]_vars

\* After a checksum error from Read, a Next returned the cached error.
C4_Witness ==
  /\ err = "ErrChecksumMismatch"
  /\ last.op = "Next"
  /\ last.err = "ErrChecksumMismatch"
  /\ fileIndex < Len(archive.files)

\* C5: a Next that returns a FileInfo with a body and no error has opened its folder
\* (the sequencer of the current folder is built); a folder whose codec graph cannot
\* be built makes Next return the error and fail the reader.
C5_FolderErrorReturned ==
  /\ (pc = "ready" /\ last.op = "Next" /\ last.err = "nil" /\ ~emptyStream)
       => (folderIndex < Len(folders) /\ folders[folderIndex + 1].sb)
  /\ (pc = "ready" /\ last.op = "Next" /\ ~emptyStream /\ last.err # "EOF"
      /\ folderIndex < Len(folders) /\ folders[folderIndex + 1].graph \notin {"unknown", "ok"})
       => (last.fileInfo = 0 /\ Failed)

IntactOpen ==
  /\ archive.missing = 0 /\ last.op = "init"
  /\ last.in.sig = "ok" /\ last.in.startCRC /\ last.in.nextCRC
  /\ last.in.top \in {"empty", "header"} \/ last.in.enc = GoodEnc

\* C7 as stated: an intact archive with zero files opens, and its first Next returns
\* end-of-stream.
C7_EmptyOpens ==
  /\ (archive.files = <<>> /\ IntactOpen) => (last.err = "nil" /\ pc = "ready")
  /\ (archive.files = <<>> /\ pc = "ready" /\ last.op = "Next")
       => (last.err = "EOF" /\ last.fileInfo = 0)

\* C7, amended: opening an intact archive with zero files fails with end-of-stream
\* when the archive has no next header (a next header of size 0, which is how an
\* empty archive is written); when a header is present and declares zero files,
\* opening succeeds and the first Next returns end-of-stream.
C7_EmptyOpenIsEOF ==
  /\ (archive.files = <<>> /\ IntactOpen)
       => IF last.in.top = "empty"
          THEN last.err = "EOF" /\ pc = "initfailed"
          ELSE last.err = "nil" /\ pc = "ready"
  /\ (archive.files = <<>> /\ pc = "ready" /\ last.op = "Next")
       => (last.err = "EOF" /\ last.fileInfo = 0)

\* init returned end-of-stream for an intact archive without a next header, the
\* ignore-checksum flag unset.
C7_Witness ==
  /\ IntactOpen
  /\ last.in.top = "empty"
  /\ ~ignoreChecksumError
  /\ last.err = "EOF"
  /\ pc = "initfailed"

\* The folderReader at folderIndex.
CurrentFolder == folders[folderIndex + 1]

\* The reader has not failed and the bytes of its current file are exhausted.
Exhausted ==
  /\ pc = "ready" /\ err = "nil" /\ yielded # <<>>
  /\ \/ emptyStream
     \/ (folderIndex < Len(folders) /\ CurrentFolder.sb /\ CurrentFolder.left = 0)

\* The bytes delivered for the current file all lie in one sub-stream.
GotWithinOneStream ==
  \/ got = <<>>
  \/ \E f \in 1..Len(archive.subs) : \E s \in 1..archive.subs[f] :
       \A i \in 1..Len(got) : \E k \in 1..SubSize(f, s) : got[i] = SubStreamBytes(f, s)[k]

\* C8: once the bytes of the current file are exhausted (and the reader has not
\* failed), a Read returns 0 bytes and end-of-stream and changes nothing; the bytes
\* read between two calls of Next never span two sub-streams.
C8_ExhaustedReadsEOF ==
  /\ []GotWithinOneStream
  /\ [][(Exhausted /\ last'.op = "Read")
          => /\ last'.n = 0 /\ last'.err = "EOF"
             /\ UNCHANGED <<pc, err, folderIndex, fileIndex, emptyStream, folders,
                            yielded, got>>]_vars

\* A Read returned end-of-stream for a fully read file whose folder holds a further
\* sub-stream.
C8_Witness ==
  /\ Exhausted /\ ~emptyStream
  /\ last.op = "Read" /\ last.err = "EOF"
  /\ got = SubStreamBytes(folderIndex + 1, CurrentFolder.target)
  /\ CurrentFolder.target < Len(CurrentFolder.sizes)

\* C9: a Next that returns a file with IsEmptyStream changes neither folderIndex nor
\* any folder's sequencer, and every Read before the following Next returns 0 bytes
\* and end-of-stream.
C9_EmptyStreamConsumesNothing ==
  /\ [][(yielded' # yielded /\ archive.files[last'.fileInfo])
          => (folderIndex' = folderIndex /\ folders' = folders)]_vars
  /\ []((last.op = "Read" /\ yielded # <<>> /\ archive.files[yielded[Len(yielded)]])
          => (last.n = 0 /\ last.err = "EOF"))

\* Read returned end-of-stream for an empty-stream file while the sub-stream of the
\* file before it still had unread bytes.
C9_Witness ==
  /\ pc = "ready" /\ emptyStream /\ yielded # <<>>
  /\ last.op = "Read" /\ last.n = 0 /\ last.err = "EOF"
  /\ folderIndex < Len(folders) /\ CurrentFolder.sb /\ CurrentFolder.left > 0

\* The current sub-stream exists and a byte read from it does not match the CRC.
CurrentDirty ==
  /\ pc = "ready" /\ folderIndex < Len(folders)
  /\ CurrentFolder.sb /\ CurrentFolder.crc = "dirty"

\* C10: for a sub-stream whose bytes do not match its CRC, a Read that returns bytes
\* and leaves bytes remaining succeeds; the Read that brings the remaining count to 0
\* returns ChecksumMismatch, no other Read is the first to return it, and the reader
\* is failed from then on, whatever the ignore-checksum flag of init was.
C10_MismatchAtBoundary ==
  /\ (last.op = "Read" /\ last.n > 0 /\ CurrentDirty /\ CurrentFolder.left > 0)
       => (last.err = "nil" /\ err = "nil")
  /\ (last.op = "Read" /\ last.n > 0 /\ CurrentDirty /\ CurrentFolder.left = 0)
       => last.err = "ErrChecksumMismatch"
  /\ (last.op = "Read" /\ last.n > 0 /\ last.err = "ErrChecksumMismatch")
       => (CurrentDirty /\ CurrentFolder.left = 0)
  /\ (CurrentDirty /\ CurrentFolder.left = 0) => err = "ErrChecksumMismatch"
  /\ (last.op = "Read" /\ last.err = "ErrChecksumMismatch") => err = "ErrChecksumMismatch"

\* With the ignore-checksum flag set, a Read of a corrupt sub-stream succeeded and a
\* later Read reached the boundary and returned ChecksumMismatch.
C10_Witness ==
  /\ ignoreChecksumError
  /\ last.op = "Read" /\ last.n > 0 /\ last.err = "ErrChecksumMismatch"
  /\ Len(got) > last.n
  /\ Failed

\* The last call was init.
LastInit == last.op = "init"

\* C11: init fails with ChecksumMismatch when the start-header CRC or the next-header
\* CRC does not match (and nothing before that check fails) unless the flag is set;
\* a wrong magic or a NextHeaderSize out of range fails with InvalidSignatureHeader
\* with or without the flag; with the flag set init returns what it returns without
\* the flag for the same source with both CRCs matching; OpenReader and NewReader do
\* not set the flag.
C11_OnlyCRCsDowngraded ==
  /\ (LastInit /\ last.in.sig \in {"badMagic", "badSize"})
       => last.err = "ErrInvalidSignatureHeader"
  /\ (LastInit /\ ~ignoreChecksumError /\ last.in.sig \in {"ok", "tooLong"} /\ ~last.in.startCRC)
       => last.err = "ErrChecksumMismatch"
  /\ (LastInit /\ ~ignoreChecksumError /\ ~last.in.nextCRC)
       => /\ last.err # "nil" /\ pc = "initfailed"
          /\ (last.in.sig = "ok" /\ last.in.startCRC /\ last.in.top \in {"header", "encoded"})
               => last.err = "ErrChecksumMismatch"
  /\ (LastInit /\ ignoreChecksumError)
       => LET r == init([last.in EXCEPT !.startCRC = TRUE, !.nextCRC = TRUE], FALSE) IN
          last.err = r.err /\ folders = r.folders
  /\ (LastInit /\ last.in.entry \in {"OpenReader", "NewReader"}) => ~ignoreChecksumError

\* With the flag set, init rejected a start header whose NextHeaderSize is out of
\* range and whose CRC does not match.
C11_Witness ==
  /\ LastInit /\ ignoreChecksumError
  /\ last.in.sig = "badSize" /\ ~last.in.startCRC
  /\ last.err = "ErrInvalidSignatureHeader"

\* The reader was opened on an encoded header whose decoded stream is a normal header.
OpenedEncoded == twin.top = "encoded" /\ pc \in {"ready", "crashed"}

\* C12: a reader opened on an archive with an encoded header and a reader opened on
\* an archive that carries the same header unencoded, given the same calls of Next
\* and Read, return the same results (error, FileInfo, bytes) call for call, and are
\* in the same state after each call.
C12_EncodedHeaderSameResults ==
  OpenedEncoded
    => /\ twin.pc = pc
       /\ twin.sz = Reader
       /\ last.op \in {"Next", "Read"}
            => /\ twin.err = last.err
               /\ twin.fileInfo = last.fileInfo
               /\ twin.n = last.n
               /\ last.bytes = (IF twin.n = 0 THEN <<>>
                                ELSE SinkBytes(twin.sz.folderIndex + 1, twin.from, twin.n))

\* Through a reader opened on an encoded header, bytes of the second file were read.
C12_Witness ==
  /\ OpenedEncoded /\ pc = "ready"
  /\ Len(yielded) = 2
  /\ last.op = "Read" /\ last.n > 0

RECURSIVE BeforeEnd(_)
\* The tags before the first End tag.
BeforeEnd(tags) ==
  IF tags = <<>> \/ Head(tags) = "End" THEN <<>> ELSE <<Head(tags)>> \o BeforeEnd(Tail(tags))

\* The tags hold an End tag, and before it MainStreamsInfo and FilesInfo tags only.
ClosedHeader(tags) ==
  /\ \E i \in 1..Len(tags) : tags[i] = "End"
  /\ \A i \in 1..Len(BeforeEnd(tags)) : BeforeEnd(tags)[i] \in {"MainStreamsInfo", "FilesInfo"}

\* C13: ReadHeader succeeds for a header with FilesInfo and no MainStreamsInfo and
\* for one with MainStreamsInfo and no FilesInfo; at the End tag it fails only when
\* neither is present.
C13_EitherSuffices ==
  (call.op = "ReadHeader" /\ ClosedHeader(call.in))
    => (call.out.err = "nil") = (BeforeEnd(call.in) # <<>>)

\* C14: a RegisterDecompressor for a registered ID panics and for an unregistered ID
\* stores its factory; no step changes the factory of a registered ID, so of the
\* callers that register one ID at most one does not panic; and a lookup returns the
\* factory in the registry, which is the one stored first.
C14_RegisterOnce ==
  /\ [][/\ \A m \in DOMAIN decompressors :
             m \in DOMAIN decompressors' /\ decompressors'[m] = decompressors[m]
        /\ \A p \in Procs :
             (procs'[p] # procs[p] /\ procs'[p].op = "register")
               => LET m == procs'[p].method IN
                  IF m \in DOMAIN decompressors
                  THEN procs'[p].pc = "panicked" /\ decompressors' = decompressors
                  ELSE procs'[p].pc = "run" /\ decompressors'[m] = procs'[p].dcomp
        /\ \A p \in Procs :
             (procs'[p] # procs[p] /\ procs'[p].op = "lookup")
               => procs'[p].found = decompressor(decompressors, procs'[p].method)]_vars
  /\ [](\A p, q \in Procs :
          (/\ p # q
           /\ procs[p].op = "register" /\ procs[q].op = "register"
           /\ procs[p].method = procs[q].method)
            => /\ procs[p].result = "panic" \/ procs[q].result = "panic"
               /\ decompressors[procs[p].method] \notin
                    {procs[r].dcomp : r \in {x \in {p, q} : procs[x].result = "panic"}})

\* Two goroutines registered the same new ID: one stored its factory, the other
\* panicked, and the registry holds the factory of the first.
C14_Witness ==
  /\ procs[1].op = "register" /\ procs[2].op = "register"
  /\ procs[1].method = 1 /\ procs[2].method = 1
  /\ procs[1].result = "panic" /\ procs[2].result = "stored"
  /\ decompressors[1] = procs[2].dcomp

\* C15: for two goroutines that call Key concurrently, each call returns the key it
\* returns when it runs alone, the cache holds under every cache key that key, and
\* no write of the cache map overlaps another access to it.
C15_KeyCacheSerialised ==
  /\ \A p \in Procs : procs[p].pc = "done" => procs[p].key = Key(procs[p].args)
  /\ \A p \in Procs :
       (procs[p].pc = "done" /\ cacheKey(procs[p].args) \in DOMAIN km.cache)
         => km.cache[cacheKey(procs[p].args)] = Key(procs[p].args)
  /\ ~km.race
  /\ Cardinality(km.writing) <= 1

\* C16: for every power, the no-stretch value included, every salt and every
\* password, NewAESDecrypter hands a key of 32 bytes to the cipher.
C16_KeyIs256Bits ==
  call.op = "NewAESDecrypter"
    => (Len(call.out.key) = 32 /\ call.out.cipher = "AES-256")

\* C17: pooled buffers are held by no folder but the one the reader is in, and when
\* Next has returned end-of-stream every folder has returned its buffers to the
\* pool, the last data folder and the folder of an encoded header included.
C17_BuffersReturned ==
  /\ pc = "ready"
       => \A f \in 1..Len(folders) : folders[f].bufs > 0 => f = folderIndex + 1
  /\ (pc = "ready" /\ last.op = "Next" /\ last.err = "EOF")
       => /\ \A f \in 1..Len(folders) : folders[f].bufs = 0
          /\ headerBufs = 0

\* C18: no sequence of calls on an opened reader, over any header that parses,
\* indexes folders out of range or dereferences a sequencer that is not built.
C18_NoPanic == pc # "crashed"

\* The number of sub-streams the header declares for folder f.
Declared(in, f) == IF ~in.s.numTag THEN 1 ELSE in.s.nums[f]

\* The CRC the archive declares for sub-stream j of folder f: its digest in the CRC
\* section when the folder is one the counting rule counts, 0 (unchecked) when
\* there is no CRC section, and the folder CRC for a folder that is not counted.
DeclaredCRC(in, f, j) ==
  IF ~in.s.present THEN UnpackCRC(in.unpackInfo, f)
  ELSE IF Declared(in, f) > 1 \/ ~in.unpackInfo[f].crcDefined
         THEN IF in.s.crcTag THEN SubStreamCRC(f, j) ELSE 0
  ELSE FolderCRC(f)

\* The header declares sizes for all the sub-streams it declares.
SizesDeclared(in) ==
  in.s.present => (in.s.sizeTag \/ \A f \in 1..Len(in.unpackInfo) : Declared(in, f) <= 1)

\* C19: the CRC the sequencer of folder f gets for its sub-stream j is the one the
\* archive declares for it under the counting rule, a SubStreamsInfo without a CRC
\* section included, and extract returns no error.
C19_DeclaredDigests ==
  (call.op = "extract" /\ SizesDeclared(call.in))
    => /\ call.out.x.err = "nil"
       /\ \A f \in 1..Len(call.in.unpackInfo) :
            /\ Len(call.out.x.folders[f].crcs) = Declared(call.in, f)
            /\ \A j \in 1..Declared(call.in, f) :
                 call.out.x.folders[f].crcs[j] = DeclaredCRC(call.in, f, j)

\* The sizes ReadSubStreamsInfo produced for folder f, UnpackSizes being cut by the
\* declared counts.
SizesOfFolder(in, ssi, f) ==
  LET before == SumSeq([g \in 1..(f - 1) |-> Declared(in, g)]) IN
  SubSeq(ssi.UnpackSizes, before + 1, before + Declared(in, f))

\* C20: for every folder that declares N >= 1 sub-streams ReadSubStreamsInfo produces
\* N sizes, none above the unpack size of the folder and none wrapped around, that
\* add up to the unpack size.
C20_SizesAddUp ==
  (call.op = "extract" /\ call.in.s.present)
    => LET in == call.in
           ssi == call.out.ssi
       IN /\ Len(ssi.UnpackSizes) = SumSeq([f \in 1..Len(in.unpackInfo) |-> Declared(in, f)])
          /\ \A f \in 1..Len(in.unpackInfo) :
               LET q == SizesOfFolder(in, ssi, f) IN
               Declared(in, f) >= 1
                 => /\ \A j \in 1..Len(q) : q[j] \in 0..in.unpackInfo[f].unpackSize
                    /\ SumSeq(q) = in.unpackInfo[f].unpackSize

\* The number of 1-bits at the top of the byte b.
LeadingOnes(b) ==
  CHOOSE k \in 0..8 : b >= 256 - Pow2(8 - k) /\ (k = 8 \/ b < 256 - Pow2(7 - k))

\* The bytes a vector reader takes from an input that is long enough.
PaddedRead(in) == ReadVector(in.reader, in.r \o [j \in 1..24 |-> 0], in.length)

\* The input of the vector reader ends before the bytes it needs.
CutShort(in) ==
  LET p == PaddedRead(in) IN
  p.err = "nil" /\ Len(in.r) + 24 - Len(p.r) > Len(in.r)

\* C24: ReadNumber and the vector readers return ErrUnexpectedEOF, not io.EOF and
\* not success, when the input ends before the bytes they need.
C24_ShortReadIsUnexpectedEOF ==
  /\ (call.op = "ReadNumber" /\ (call.in = <<>> \/ Len(call.in) < 1 + LeadingOnes(call.in[1])))
       => call.out.u64.err = "ErrUnexpectedEOF"
  /\ (call.op = "ReadVector" /\ CutShort(call.in))
       => call.out.err = "ErrUnexpectedEOF"

\* C25: for a first byte with k leading 1-bits followed by k bytes, ReadNumber takes
\* 1+k bytes and returns the k bytes, least significant first, with the low bits of
\* the first byte above them; ReadNumberInt returns that value when it is at most
\* 0x7FFFFFFF and ErrInvalidNumber when it is more.
C25_NumberDecoded ==
  (call.op = "ReadNumber" /\ call.in # <<>> /\ Len(call.in) >= 1 + LeadingOnes(call.in[1]))
    => LET k == LeadingOnes(call.in[1])
           expected == [j \in 1..8 |->
                          IF j <= k THEN call.in[j + 1]
                          ELSE IF j = k + 1 THEN call.in[1] - (256 - Pow2(8 - k))
                          ELSE 0]
           small == expected[4] < 128 /\ \A j \in 5..8 : expected[j] = 0
       IN /\ call.out.u64.err = "nil"
          /\ call.out.u64.val = expected
          /\ call.out.u64.r = SubSeq(call.in, k + 2, Len(call.in))
          /\ small => /\ call.out.int.err = "nil"
                      /\ call.out.int.val = expected[1] + 256 * expected[2]
                                            + 65536 * expected[3] + 16777216 * expected[4]
          /\ ~small => call.out.int.err = "ErrInvalidNumber"

\* ReadNumber decoded a first byte of eight 1-bits to a value of 64 bits, which
\* ReadNumberInt refused.
C25_Witness ==
  /\ call.op = "ReadNumber"
  /\ call.in = <<255, 255, 255, 255, 255, 255, 255, 255, 255>>
  /\ call.out.u64.val = [j \in 1..8 |-> 255]
  /\ call.out.int.err = "ErrInvalidNumber"

\* The tags of a PackInfo after its leading Size tags.
RECURSIVE AfterSizes(_)
AfterSizes(tags) ==
  IF tags # <<>> /\ Head(tags) = "Size" THEN AfterSizes(Tail(tags)) ELSE tags

\* C22: ReadPackInfo succeeds only at an End tag that a Size tag precedes; a CRC tag
\* is ErrPackInfoCRCsNotImplemented and any other tag ErrUnexpectedPropertyID.
C22_SizeRequired ==
  (call.op = "ReadPackInfo" /\ AfterSizes(call.in.tags) # <<>>)
    => LET tag == Head(AfterSizes(call.in.tags)) IN
       /\ tag = "End" => ((call.out.p.err = "nil") = (Head(call.in.tags) = "Size"))
       /\ tag = "CRC" => call.out.p.err = "ErrPackInfoCRCsNotImplemented"
       /\ tag = "UnpackInfo" => call.out.p.err = "ErrUnexpectedPropertyID"

\* The packed streams the folders reference: one for a folder without PackedIndices.
RECURSIVE Referenced(_)
Referenced(packed) ==
  IF packed = <<>> THEN 0
  ELSE (IF Head(packed) = 0 THEN 1 ELSE Head(packed)) + Referenced(Tail(packed))

\* C23: ReadPackInfo holds as many pack sizes as it declares, and extract fails when
\* the folders reference more packed streams than that, so every input is bound to
\* a size that was read.
C23_PackSizesCounted ==
  (call.op = "ReadPackInfo" /\ call.out.p.err = "nil")
    => /\ Len(call.out.p.PackSizes) = call.in.n
       /\ Referenced(call.in.packed) > call.in.n => call.out.x.err # "nil"
       /\ \A f \in 1..Len(call.out.x.bound) : \A j \in 1..Len(call.out.x.bound[f]) :
            call.out.x.bound[f][j] < call.in.n

\* The lengths an array of the header may have.
WithinCap(a, remaining) ==
  CASE a.of = "coders" -> a.len \in 1..MaxCodersInFolder
    [] a.of = "bindPairs" -> a.len \in 0..(MaxCodersInFolder - 1)
    [] a.of = "packedIndices" -> a.len \in 0..MaxPackedStreamsInFolder
    [] a.of = "properties" -> a.len \in 1..MaxPropertyDataSize
    [] a.of = "codecID" -> a.len \in 1..15
    [] a.of = "folders" -> a.len \in 0..MaxFolderCount
    [] a.of = "files" -> a.len \in 0..(remaining \div 3)

\* The error for a count that is out of its range: ErrInvalidNumber when it is no
\* number ReadNumberInt accepts, the error of the count when it is.
CountError(v, e) == IF v < 0 THEN "ErrInvalidNumber" ELSE e

OutOfRange(v, lo, hi) == v < lo \/ v > hi

RECURSIVE Significant(_)
Significant(id) == IF id # <<>> /\ Head(id) = 0 THEN Significant(Tail(id)) ELSE id

\* C26: two coder IDs of different big-endian values are looked up under different
\* registry keys.
C26_KeyInjective ==
  (call.op = "CodecID" /\ Significant(call.in[1]) # Significant(call.in[2]))
    => call.out[1] # call.out[2]

\* C27: different (password, salt, power) tuples have different cache keys, and Key
\* returns for every tuple, whatever the cache holds, the key derived on an empty
\* cache.
C27_CacheKeyExact ==
  call.op = "Key"
    => /\ call.in[1] # call.in[2] => cacheKey(call.in[1]) # cacheKey(call.in[2])
       /\ call.out[2] = Key(call.in[2])

\* C29: the AES coder answers a property blob shorter than 2 + saltSize + ivSize with
\* an error, and does not panic.
C29_ShortBlobRejected ==
  call.op = "aesDecompressor"
    => /\ call.out.err # "panic"
       /\ (Len(call.in) < 2
             \/ Len(call.in) < 2 + (call.in[1] \div 128) + (call.in[2] \div 16)
                                 + ((call.in[1] \div 64) % 2) + (call.in[2] % 16))
            => call.out.err # "nil"

\* The AES-CBC decryption of whole blocks.
RECURSIVE CBCDecrypt(_, _)
CBCDecrypt(iv, input) ==
  IF Len(input) < BlockSize THEN <<>>
  ELSE CryptBlocks(iv, SubSeq(input, 1, BlockSize))
         \o CBCDecrypt(SubSeq(input, 1, BlockSize), SubSeq(input, BlockSize + 1, Len(input)))

\* C28: for an input of whole blocks and any sizes of the caller's buffers, the bytes
\* the Reads of the AES coder returned are the start of the AES-CBC decryption of the
\* input, and all of it once a Read has returned an error.
C28_AllBlocksDecrypted ==
  call.op = "AESDecrypter"
    => LET plain == CBCDecrypt(ZeroBytes(BlockSize), call.in)
           returned == call.out.got
       IN /\ Len(returned) <= Len(plain) /\ returned = SubSeq(plain, 1, Len(returned))
          /\ call.out.err # "nil" => returned = plain

\* C30: whatever the split of the input across Reads, byte i of the output of the
\* Delta decoder is input byte i plus output byte i - d modulo 256, output bytes before
\* the start being 0, and the output is as long as the input once a Read has returned
\* an error.
C30_DeltaChunkingFree ==
  call.op = "DeltaDecoder"
    => LET returned == call.out.got
           d == call.in.delta
       IN /\ \A i \in 1..Len(returned) :
               returned[i] = (call.in.input[i] + (IF i > d THEN returned[i - d] ELSE 0)) % 256
          /\ call.out.err # "nil" => Len(returned) = Len(call.in.input)

====
